---------------------------- MODULE Spec2Model ----------------------------
(***************************************************************************)
(* jsonriver: an incremental JSON parser.                                  *)
(*                                                                         *)
(* The model follows the Tokenizer / Input of src/unnamed/part_007 and the *)
(* Parser (value builder and driver) of src/unnamed/part_004, lines        *)
(* 100-573.  A text is a sequence of UTF-16 code units.                     *)
(*                                                                         *)
(* All code that runs between two awaits is synchronous, so one action of  *)
(* the model is the code from one suspension point of the parse task to    *)
(* the next: a pull by the consumer (Parser.next up to its first read of   *)
(* the upstream) or the upstream answering a read (a chunk, or done).      *)
(***************************************************************************)
EXTENDS Integers, Sequences, FiniteSets, TLC

(***************************************************************************)
(* Bounds of the model.                                                    *)
(***************************************************************************)
\* Every text over Alphabet of at most MaxLen characters is an input.
MaxLen == 4
\* The upstream may deliver at most this many empty chunks in a run.
MaxEmpty == 1
\* Reads of an upstream that already reported done are counted up to here.
MaxReadsAfterDone == 3

(***************************************************************************)
(* Characters are UTF-16 code units, as in a JavaScript string.  Code      *)
(* gives the code unit of the characters the model writes its texts with.  *)
(***************************************************************************)
Code(c) ==
  CASE c = "\t" -> 9 [] c = "\n" -> 10 [] c = "\f" -> 12 [] c = "\r" -> 13
    [] c = " " -> 32 [] c = "\"" -> 34 [] c = "+" -> 43 [] c = "," -> 44
    [] c = "-" -> 45 [] c = "." -> 46 [] c = "/" -> 47
    [] c = "0" -> 48 [] c = "1" -> 49 [] c = "2" -> 50 [] c = "3" -> 51
    [] c = "4" -> 52 [] c = "5" -> 53 [] c = "6" -> 54 [] c = "7" -> 55
    [] c = "8" -> 56 [] c = "9" -> 57 [] c = ":" -> 58
    [] c = "A" -> 65 [] c = "B" -> 66 [] c = "C" -> 67 [] c = "D" -> 68
    [] c = "E" -> 69 [] c = "F" -> 70
    [] c = "[" -> 91 [] c = "\\" -> 92 [] c = "]" -> 93
    [] c = "a" -> 97 [] c = "b" -> 98 [] c = "c" -> 99 [] c = "d" -> 100
    [] c = "e" -> 101 [] c = "f" -> 102 [] c = "g" -> 103 [] c = "l" -> 108 [] c = "n" -> 110
    [] c = "r" -> 114 [] c = "s" -> 115 [] c = "t" -> 116 [] c = "u" -> 117
    [] c = "x" -> 120 [] c = "{" -> 123 [] c = "}" -> 125
    [] c = "VT" -> 11 [] c = "NBSP" -> 160

\* The text written as the sequence of characters cs.
Str(cs) == [i \in 1..Len(cs) |-> Code(cs[i])]

\* The code units the tokenizer tests for.
Quote == 34
Plus == 43
Comma == 44
Minus == 45
Dot == 46
Zero == 48
Nine == 57
Colon == 58
UpperE == 69
LBracket == 91
Backslash == 92
RBracket == 93
LowerE == 101
LowerU == 117
LBrace == 123
RBrace == 125

Digits == Zero..Nine

IsDigit(c) == c \in Digits

\* skipPastWhitespace: c === 32 || c === 9 || c === 10 || c === 13
JsonWhitespace == {32, 9, 10, 13}

\* String.prototype.trim strips the WhiteSpace and LineTerminator code
\* points of ECMAScript: TAB, LF, VT, FF, CR, SP, NBSP, the Unicode space
\* separators, LS, PS and ZWNBSP.
TrimWhitespace ==
  (9..13) \cup {32, 160, 5760, 8232, 8233, 8239, 8287, 12288, 65279} \cup (8192..8202)

\* /[\x00-\x1f]/
IsControl(c) == c >= 0 /\ c <= 31

\* /^[-0123456789]/
IsNumberStart(c) == c = Minus \/ IsDigit(c)

\* [-+0123456789eE.]
NumberChars == Digits \cup {Minus, Plus, LowerE, UpperE, Dot}

\* [0-9a-fA-F]
IsHex(c) == IsDigit(c) \/ (c >= 97 /\ c <= 102) \/ (c >= 65 /\ c <= 70)

\* parseInt of one hexadecimal digit
HexVal(c) ==
  IF IsDigit(c) THEN c - Zero ELSE IF c >= 97 THEN c - 97 + 10 ELSE c - 65 + 10

\* /["\\]/
StringBreakers == {Quote, Backslash}

(***************************************************************************)
(* Sequences of characters.                                                *)
(***************************************************************************)
Drop(s, n) == SubSeq(s, n + 1, Len(s))

Take(s, n) == SubSeq(s, 1, n)

StartsWith(s, p) == Len(s) >= Len(p) /\ SubSeq(s, 1, Len(p)) = p

\* The length of the longest prefix of s, from i on, with all characters in
\* class.
RECURSIVE SpanLen(_, _, _)
SpanLen(s, class, i) ==
  IF i < Len(s) /\ s[i + 1] \in class THEN SpanLen(s, class, i + 1) ELSE i

\* The length of the longest prefix of s, from i on, with no character in
\* class: the index of the first match of the class.
RECURSIVE SpanLenUntil(_, _, _)
SpanLenUntil(s, class, i) ==
  IF i < Len(s) /\ s[i + 1] \notin class THEN SpanLenUntil(s, class, i + 1) ELSE i

\* The length of the longest suffix of s with all characters in class.
RECURSIVE SpanLenBack(_, _, _)
SpanLenBack(s, class, i) ==
  IF i < Len(s) /\ s[Len(s) - i] \in class THEN SpanLenBack(s, class, i + 1) ELSE i

(***************************************************************************)
(* Numbers: jsonNumberPattern and Number(str).                             *)
(***************************************************************************)
\* One step of the automaton of /^-?(0|[1-9]\d*)(\.\d+)?([eE][+-]?\d+)?$/.
NumberStep(st, c) ==
  CASE st = "start" /\ c = Minus -> "minus"
    [] st \in {"start", "minus"} /\ c = Zero -> "zero"
    [] st \in {"start", "minus"} /\ IsDigit(c) /\ c # Zero -> "int"
    [] st = "int" /\ IsDigit(c) -> "int"
    [] st \in {"zero", "int"} /\ c = Dot -> "dot"
    [] st \in {"dot", "frac"} /\ IsDigit(c) -> "frac"
    [] st \in {"zero", "int", "frac"} /\ c \in {LowerE, UpperE} -> "e"
    [] st = "e" /\ c \in {Plus, Minus} -> "esign"
    [] st \in {"e", "esign", "exp"} /\ IsDigit(c) -> "exp"
    [] OTHER -> "reject"

RECURSIVE NumberState(_, _, _)
NumberState(str, i, st) ==
  IF i > Len(str) THEN st ELSE NumberState(str, i + 1, NumberStep(st, str[i]))

\* jsonNumberPattern.test(str)
MatchesJsonNumberPattern(str) ==
  NumberState(str, 1, "start") \in {"zero", "int", "frac", "exp"}

\* The digits of str read as a decimal integer (other characters skipped).
RECURSIVE DigitsValue(_, _)
DigitsValue(str, acc) ==
  IF str = <<>> THEN acc
  ELSE DigitsValue(Tail(str), IF IsDigit(Head(str)) THEN 10 * acc + (Head(str) - Zero) ELSE acc)

\* The number m * 10^e, with m brought to no multiple of 10 (0 is 0 * 10^0).
RECURSIVE NumberValue(_, _, _)
NumberValue(neg, m, e) ==
  IF m = 0 THEN [t |-> "num", neg |-> neg, m |-> 0, e |-> 0]
  ELSE IF m % 10 = 0 THEN NumberValue(neg, m \div 10, e + 1)
  ELSE [t |-> "num", neg |-> neg, m |-> m, e |-> e]

MantissaChars == Digits \cup {Dot}

\* The number of digits after the decimal point of the mantissa mant.
FractionLen(mant) ==
  LET i == SpanLen(mant, Digits, 0) IN IF i < Len(mant) THEN Len(mant) - i - 1 ELSE 0

\* The exponent part ("", or e, an optional sign and digits) as an integer.
ExponentValue(expPart) ==
  IF Len(expPart) >= 2 /\ expPart[2] = Minus
  THEN 0 - DigitsValue(expPart, 0)
  ELSE DigitsValue(expPart, 0)

NumberOfParts(neg, mant, expPart) ==
  NumberValue(neg, DigitsValue(mant, 0), ExponentValue(expPart) - FractionLen(mant))

NumberOfUnsigned(neg, body, mantLen) ==
  NumberOfParts(neg, SubSeq(body, 1, mantLen), SubSeq(body, mantLen + 1, Len(body)))

NumberOfSigned(neg, body) == NumberOfUnsigned(neg, body, SpanLen(body, MantissaChars, 0))

\* Number(str) for a str that matches jsonNumberPattern: the number it
\* denotes, as sign, mantissa and decimal exponent (no rounding occurs
\* within the bounds of the model).
NumberOf(str) ==
  IF str # <<>> /\ Head(str) = Minus
  THEN NumberOfSigned(TRUE, Tail(str))
  ELSE NumberOfSigned(FALSE, str)

(***************************************************************************)
(* JSON values.  Arrays and objects live in a heap and are referred to by  *)
(* their index in it, so that two yields can be compared for identity and  *)
(* a container can be updated in place.  An object keeps its keys in the   *)
(* order in which they were added.                                         *)
(***************************************************************************)
Undefined == [t |-> "undefined"]

NullValue == [t |-> "null"]

BooleanValue(b) == [t |-> "bool", b |-> b]

\* A string that is null as long as it is empty.
StringOrNull(s) == IF s = <<>> THEN [t |-> "null"] ELSE [t |-> "str", s |-> s]

StringValue(s) == [t |-> "str", s |-> s]

Ref(id) == [t |-> "ref", id |-> id]

NewArray == [t |-> "arr", items |-> <<>>]

NewObject == [t |-> "obj", keys |-> <<>>, vals |-> <<>>]

\* The index of key in keys, or 0.
KeyIndex(keys, key) ==
  IF \E i \in 1..Len(keys) : keys[i] = key
  THEN CHOOSE i \in 1..Len(keys) : keys[i] = key
  ELSE 0

\* A property set that moves a key that is already present to the end.
SetPropertyAtEnd(heap, id, i, key, value) ==
  IF i = 0
  THEN [heap EXCEPT ![id].keys = Append(@, key), ![id].vals = Append(@, value)]
  ELSE [heap EXCEPT ![id].keys = Append(SubSeq(@, 1, i - 1) \o SubSeq(@, i + 1, Len(@)), key),
                    ![id].vals = Append(SubSeq(@, 1, i - 1) \o SubSeq(@, i + 1, Len(@)), value)]

\* A property set that puts a new key first.
SetPropertyAtFront(heap, id, i, key, value) ==
  IF i = 0
  THEN [heap EXCEPT ![id].keys = <<key>> \o @, ![id].vals = <<value>> \o @]
  ELSE [heap EXCEPT ![id].vals[i] = value]

SetPropertyAt(heap, id, i, key, value) ==
  IF i = 0
  THEN [heap EXCEPT ![id].keys = Append(@, key), ![id].vals = Append(@, value)]
  ELSE [heap EXCEPT ![id].vals[i] = value]

\* setObjectProperty(object, key, value): an own enumerable property; a key
\* that is already present keeps its place and gets the new value.
SetObjectProperty(heap, id, key, value) ==
  SetPropertyAt(heap, id, KeyIndex(heap[id].keys, key), key, value)

\* A push that puts the value first.
ArrayPushFirst(heap, id, value) == [heap EXCEPT ![id].items = <<value>> \o @]

\* A push that makes a new array of the array's last element.
ArrayPushCopying(heap, id, value) ==
  IF heap[id].items # <<>> /\ heap[id].items[Len(heap[id].items)].t = "ref"
       /\ heap[heap[id].items[Len(heap[id].items)].id].t = "arr"
  THEN [Append(heap, heap[heap[id].items[Len(heap[id].items)].id])
          EXCEPT ![id].items = Append([@ EXCEPT ![Len(@)] = Ref(Len(heap) + 1)], value)]
  ELSE [heap EXCEPT ![id].items = Append(@, value)]

\* array.push(v)
ArrayPush(heap, id, value) == [heap EXCEPT ![id].items = Append(@, value)]

\* A set of the first element of the array.
ArraySetFirst(heap, id, value) ==
  IF heap[id].items = <<>> THEN heap
  ELSE [heap EXCEPT ![id].items[1] = value]

\* array[array.length - 1] = v
ArraySetLast(heap, id, value) ==
  IF heap[id].items = <<>> THEN heap
  ELSE [heap EXCEPT ![id].items[Len(heap[id].items)] = value]

(***************************************************************************)
(* The machine: the fields of Input, Tokenizer and Parser.  The            *)
(* synchronous code is modelled by operators from machine to machine; an   *)
(* exception is recorded in the field error and stops the code.            *)
(***************************************************************************)
NoError == "none"

Ok(m) == m.error = NoError

Throw(m, msg) == [m EXCEPT !.error = msg]

Pop(stack) == SubSeq(stack, 1, Len(stack) - 1)

Top(stack) == stack[Len(stack)]

(***************************************************************************)
(* Parser: the frames of stateStack.  A frame refers to its container by   *)
(* the container's index in the heap.                                      *)
(***************************************************************************)
InitialState == [type |-> "Initial"]

InStringState(value) == [type |-> "InString", value |-> value]

InArrayState(id) == [type |-> "InArray", ref |-> id]

InObjectExpectingKeyState(hasPrevKey, prevKey, id) ==
  [type |-> "InObjectExpectingKey", hasPrevKey |-> hasPrevKey, prevKey |-> prevKey, ref |-> id]

InObjectExpectingValueState(key, id) ==
  [type |-> "InObjectExpectingValue", key |-> key, ref |-> id]

(***************************************************************************)
(* What the consumer sees of a yielded value: the tree, with the identity  *)
(* of each container.                                                      *)
(***************************************************************************)
RECURSIVE Snapshot(_, _)
Snapshot(heap, v) ==
  IF v.t # "ref" THEN v
  ELSE IF heap[v.id].t = "arr"
  THEN [t |-> "arr", id |-> v.id,
        items |-> [i \in 1..Len(heap[v.id].items) |-> Snapshot(heap, heap[v.id].items[i])]]
  ELSE [t |-> "obj", id |-> v.id, keys |-> heap[v.id].keys,
        vals |-> [i \in 1..Len(heap[v.id].vals) |-> Snapshot(heap, heap[v.id].vals[i])]]

\* A segment of a path: an object key or an array index.
KeySegment(key) == [key |-> key]

\* The segment of an array that counts its elements from 1.
IndexSegmentFromOne(index) == [index |-> index + 1]

IndexSegment(index) == [index |-> index]

\* What segments() gives: the list it returns, or that it threw.
Returned(segments) == [threw |-> FALSE, segments |-> segments]

SegmentsThrow == [threw |-> TRUE, segments |-> <<>>]

\* The loop of CompleteValueInfo.segments() over the frames n and above of
\* the state stack, with the list built so far.
RECURSIVE SegmentsFrom(_, _, _, _)
SegmentsFrom(stateStack, heap, n, segments) ==
  IF n > Len(stateStack) THEN Returned(segments)
  ELSE CASE stateStack[n].type \in {"InString", "Initial"} -> SegmentsThrow
         [] stateStack[n].type = "InObjectExpectingKey" ->
              SegmentsFrom(stateStack, heap, n + 1,
                           IF stateStack[n].hasPrevKey
                           THEN Append(segments, KeySegment(stateStack[n].prevKey))
                           ELSE segments)
         [] stateStack[n].type = "InArray" ->
              SegmentsFrom(stateStack, heap, n + 1,
                           Append(segments, IndexSegment(Len(heap[stateStack[n].ref].items) - 1)))
         [] OTHER ->
              SegmentsFrom(stateStack, heap, n + 1,
                           Append(segments, KeySegment(stateStack[n].key)))

\* CompleteValueInfo.segments()
Segments(stateStack, heap) == SegmentsFrom(stateStack, heap, 1, <<>>)

\* this.completeCallback(value, this.completeValueInfo), for a callback that
\* records the value as it is, the result of path.segments() and the
\* top-level value as it is.
CompleteCallback(m, value) ==
  [m EXCEPT !.completed =
     Append(@, [value |-> Snapshot(m.heap, value),
                path |-> Segments(m.stateStack, m.heap),
                root |-> Snapshot(m.heap, m.toplevelValue)])]

\* The callback for the top-level value, if (this.stateStack.length === 0).
CompleteToplevel(m) ==
  IF m.stateStack = <<>> THEN CompleteCallback(m, m.toplevelValue) ELSE m

\* The callback for the value pushed to the array, if the frame of the array
\* is still the top of the stack: the stack has its n frames.
CompletePushed(m, id, n) ==
  IF Len(m.stateStack) = n
  THEN CompleteCallback(m, m.heap[id].items[Len(m.heap[id].items)])
  ELSE m

\* No callback for a value set at a key.
CompletePropertyNever(m, id, key, n) == m

\* The callback for the value set at the key, if expectedState is still the
\* top of the stack: the stack has its n frames.
CompleteProperty(m, id, key, n) ==
  IF Len(m.stateStack) = n
  THEN CompleteCallback(m, m.heap[id].vals[KeyIndex(m.heap[id].keys, key)])
  ELSE m

\* progressValue(type, value): the value the token starts, and the machine
\* with the frame of a started string or container pushed.
ProgressValue(m, type, value) ==
  CASE type = "Null" -> [m |-> m, v |-> NullValue]
    [] type = "Boolean" -> [m |-> m, v |-> value]
    [] type = "Number" -> [m |-> m, v |-> value]
    [] type = "StringStart" ->
         [m |-> [m EXCEPT !.stateStack = Append(@, InStringState(<<>>))],
          v |-> StringValue(<<>>)]
    [] type = "ArrayStart" ->
         [m |-> [m EXCEPT !.heap = Append(@, NewArray),
                          !.stateStack = Append(@, InArrayState(Len(m.heap) + 1))],
          v |-> Ref(Len(m.heap) + 1)]
    [] type = "ObjectStart" ->
         [m |-> [m EXCEPT !.heap = Append(@, NewObject),
                          !.stateStack = Append(@, InObjectExpectingKeyState(FALSE, <<>>, Len(m.heap) + 1))],
          v |-> Ref(Len(m.heap) + 1)]
    [] OTHER -> [m |-> Throw(m, "Unexpected token type"), v |-> Undefined]

\* this.toplevelValue = this.progressValue(...)
SetToplevel(pv) == [pv.m EXCEPT !.toplevelValue = pv.v]

\* state.value.push(this.progressValue(...))
PushValue(id, pv) == [pv.m EXCEPT !.heap = ArrayPush(@, id, pv.v)]

\* setObjectProperty(object, key, this.progressValue(...)).  A key that the
\* object already has is a duplicate key of the text: the place is
\* remembered as overridden.
SetProperty(id, key, pv) ==
  [pv.m EXCEPT !.heap = SetObjectProperty(@, id, key, pv.v),
               !.overridden = IF KeyIndex(pv.m.heap[id].keys, key) # 0
                              THEN @ \cup {<<id, key>>} ELSE @]

\* handleValueToken, after currentState() returned state.
HandleValueTokenIn(m, state, type, value) ==
  CASE state.type = "Initial" ->
         CompleteToplevel(
           SetToplevel(ProgressValue([m EXCEPT !.progressed = TRUE, !.stateStack = Pop(@)], type, value)))
    [] state.type = "InArray" ->
         CompletePushed(
           PushValue(state.ref, ProgressValue([m EXCEPT !.progressed = TRUE], type, value)),
           state.ref, Len(m.stateStack))
    [] state.type = "InObjectExpectingValue" ->
         CompleteProperty(
           SetProperty(state.ref, state.key,
             ProgressValue(
               [m EXCEPT !.progressed = TRUE,
                         !.stateStack = IF type # "StringStart"
                                        THEN Append(Pop(@), InObjectExpectingKeyState(TRUE, state.key, state.ref))
                                        ELSE @],
               type, value)),
           state.ref, state.key, Len(m.stateStack))
    [] state.type = "InString" ->
         Throw([m EXCEPT !.progressed = TRUE], "Unexpected token in the middle of string")
    [] state.type = "InObjectExpectingKey" ->
         Throw([m EXCEPT !.progressed = TRUE], "Unexpected token in the middle of object expecting key")

\* handleNull, handleBoolean, handleNumber, handleArrayStart and
\* handleObjectStart all are handleValueToken(type, value).
HandleValueToken(m, type, value) ==
  IF m.stateStack = <<>> THEN Throw(m, "Unexpected trailing input")
  ELSE HandleValueTokenIn(m, Top(m.stateStack), type, value)

\* A handleStringStart that leaves the Initial frame under the string.
HandleStringStartKeeping(m, state) ==
  CASE state.type = "Initial" ->
         SetToplevel(ProgressValue([m EXCEPT !.progressed = TRUE], "StringStart", Undefined))
    [] state.type = "InArray" ->
         PushValue(state.ref, ProgressValue([m EXCEPT !.progressed = TRUE], "StringStart", Undefined))
    [] state.type = "InObjectExpectingKey" ->
         [m EXCEPT !.stateStack = Append(@, InStringState(<<>>))]
    [] state.type = "InObjectExpectingValue" ->
         SetProperty(state.ref, state.key, ProgressValue([m EXCEPT !.progressed = TRUE], "StringStart", Undefined))
    [] state.type = "InString" ->
         Throw([m EXCEPT !.progressed = TRUE], "Unexpected string start token in the middle of string")

\* handleStringStart, after currentState() returned state.
HandleStringStartIn(m, state) ==
  CASE state.type = "Initial" ->
         SetToplevel(ProgressValue([m EXCEPT !.progressed = TRUE, !.stateStack = Pop(@)], "StringStart", Undefined))
    [] state.type = "InArray" ->
         PushValue(state.ref, ProgressValue([m EXCEPT !.progressed = TRUE], "StringStart", Undefined))
    [] state.type = "InObjectExpectingKey" ->
         [m EXCEPT !.stateStack = Append(@, InStringState(<<>>))]
    [] state.type = "InObjectExpectingValue" ->
         SetProperty(state.ref, state.key, ProgressValue([m EXCEPT !.progressed = TRUE], "StringStart", Undefined))
    [] state.type = "InString" ->
         Throw([m EXCEPT !.progressed = TRUE], "Unexpected string start token in the middle of string")

HandleStringStart(m) ==
  IF m.stateStack = <<>> THEN Throw(m, "Unexpected trailing input")
  ELSE HandleStringStartIn(m, Top(m.stateStack))

\* A callback for every update of a string, final or not.
CompleteStringAlways(m, updated, isFinal) == CompleteCallback(m, StringValue(updated))

\* if (isFinal && this.completeCallback !== undefined)
\*   this.completeCallback(updated, this.completeValueInfo)
CompleteString(m, updated, isFinal) ==
  IF isFinal THEN CompleteCallback(m, StringValue(updated)) ELSE m

\* The frame of the object expects a key again, if parentState is the top of
\* the stack.
ExpectKeyAfter(m, parentState, isTop) ==
  [m EXCEPT !.stateStack = IF isTop
                           THEN Append(Pop(@), InObjectExpectingKeyState(TRUE, parentState.key, parentState.ref))
                           ELSE @]

\* An updateStringParent that sets the property as the key is read.
UpdateStringParentInEager(m, updated, parentState, isTop, isFinal) ==
  CASE parentState.type = "InArray" ->
         CompleteString(
           [m EXCEPT !.heap = ArraySetLast(@, parentState.ref, StringValue(updated))],
           updated, isFinal)
    [] parentState.type = "InObjectExpectingValue" ->
         ExpectKeyAfter(
           CompleteString(
             [m EXCEPT !.heap = SetObjectProperty(@, parentState.ref, parentState.key, StringValue(updated))],
             updated, isFinal),
           parentState, isTop)
    [] parentState.type = "InObjectExpectingKey" ->
         [m EXCEPT !.heap = SetObjectProperty(@, parentState.ref, updated, Undefined),
                   !.stateStack = IF isTop
                                  THEN Append(Pop(@), InObjectExpectingValueState(updated, parentState.ref))
                                  ELSE @]
    [] OTHER -> Throw(m, "Unexpected parent state for string")

\* updateStringParent(updated, parentState, isFinal) for a parentState that
\* is a frame; isTop is this.stateStack[this.stateStack.length - 1] ===
\* parentState.
UpdateStringParentIn(m, updated, parentState, isTop, isFinal) ==
  CASE parentState.type = "InArray" ->
         CompleteString(
           [m EXCEPT !.heap = ArraySetLast(@, parentState.ref, StringValue(updated))],
           updated, isFinal)
    [] parentState.type = "InObjectExpectingValue" ->
         ExpectKeyAfter(
           CompleteString(
             [m EXCEPT !.heap = SetObjectProperty(@, parentState.ref, parentState.key, StringValue(updated))],
             updated, isFinal),
           parentState, isTop)
    [] parentState.type = "InObjectExpectingKey" ->
         [m EXCEPT !.stateStack = IF isTop
                                  THEN Append(Pop(@), InObjectExpectingValueState(updated, parentState.ref))
                                  ELSE @]
    [] OTHER -> Throw(m, "Unexpected parent state for string")

\* updateStringParent(updated, this.stateStack[parentIndex], isFinal); the
\* frame is undefined when parentIndex is 0.
UpdateStringParent(m, updated, parentIndex, isFinal) ==
  IF parentIndex = 0
  THEN CompleteString([m EXCEPT !.toplevelValue = StringValue(updated)], updated, isFinal)
  ELSE UpdateStringParentIn(m, updated, m.stateStack[parentIndex],
                            parentIndex = Len(m.stateStack), isFinal)

\* A test of the frame below the top that never finds a key.
PrevNeverExpectsKey(stateStack) == FALSE

\* prev?.type === StateEnum.InObjectExpectingKey for the frame below the top.
PrevExpectsKey(stateStack) ==
  Len(stateStack) >= 2 /\ stateStack[Len(stateStack) - 1].type = "InObjectExpectingKey"

\* A handleStringMiddle that puts the characters of the token first.
HandleStringMiddlePrepend(m, value) ==
  IF m.stateStack = <<>> THEN Throw(m, "Unexpected trailing input")
  ELSE IF Top(m.stateStack).type # "InString"
  THEN Throw([m EXCEPT !.progressed = @ \/ ~PrevExpectsKey(m.stateStack)],
             "Unexpected string middle token")
  ELSE UpdateStringParent(
         [m EXCEPT !.progressed = @ \/ ~PrevExpectsKey(m.stateStack),
                   !.stateStack[Len(m.stateStack)].value = value \o @],
         value \o Top(m.stateStack).value,
         Len(m.stateStack) - 1, FALSE)

\* A handleStringMiddle that keeps only the characters of the last token.
HandleStringMiddleReplace(m, value) ==
  IF m.stateStack = <<>> THEN Throw(m, "Unexpected trailing input")
  ELSE IF Top(m.stateStack).type # "InString"
  THEN Throw([m EXCEPT !.progressed = @ \/ ~PrevExpectsKey(m.stateStack)],
             "Unexpected string middle token")
  ELSE UpdateStringParent(
         [m EXCEPT !.progressed = @ \/ ~PrevExpectsKey(m.stateStack),
                   !.stateStack[Len(m.stateStack)].value = value],
         value,
         Len(m.stateStack) - 1, FALSE)

HandleStringMiddle(m, value) ==
  IF m.stateStack = <<>> THEN Throw(m, "Unexpected trailing input")
  ELSE IF Top(m.stateStack).type # "InString"
  THEN Throw([m EXCEPT !.progressed = @ \/ ~PrevExpectsKey(m.stateStack)],
             "Unexpected string middle token")
  ELSE UpdateStringParent(
         [m EXCEPT !.progressed = @ \/ ~PrevExpectsKey(m.stateStack),
                   !.stateStack[Len(m.stateStack)].value = @ \o value],
         Top(m.stateStack).value \o value,
         Len(m.stateStack) - 1, FALSE)

HandleStringEnd(m) ==
  IF m.stateStack = <<>> THEN Throw(m, "Unexpected trailing input")
  ELSE IF Top(m.stateStack).type # "InString" THEN Throw(m, "Unexpected string end token")
  ELSE UpdateStringParent([m EXCEPT !.stateStack = Pop(@)],
                          Top(m.stateStack).value,
                          Len(m.stateStack) - 1, TRUE)

\* A handleArrayEnd that calls no callback.
HandleArrayEndSilent(m) ==
  IF m.stateStack = <<>> THEN Throw(m, "Unexpected trailing input")
  ELSE IF Top(m.stateStack).type # "InArray" THEN Throw(m, "Unexpected array end token")
  ELSE [m EXCEPT !.stateStack = Pop(@)]

HandleArrayEnd(m) ==
  IF m.stateStack = <<>> THEN Throw(m, "Unexpected trailing input")
  ELSE IF Top(m.stateStack).type # "InArray" THEN Throw(m, "Unexpected array end token")
  ELSE CompleteCallback([m EXCEPT !.stateStack = Pop(@)], Ref(Top(m.stateStack).ref))

HandleObjectEnd(m) ==
  IF m.stateStack = <<>> THEN Throw(m, "Unexpected trailing input")
  ELSE IF Top(m.stateStack).type \notin {"InObjectExpectingKey", "InObjectExpectingValue"}
  THEN Throw(m, "Unexpected object end token")
  ELSE CompleteCallback([m EXCEPT !.stateStack = Pop(@)], Ref(Top(m.stateStack).ref))

\* The token handler: the tokenizer's emit reaches the handle method of the
\* token's type.
HandleToken(m, type, value) ==
  CASE type \in {"Null", "Boolean", "Number", "ArrayStart", "ObjectStart"} ->
         HandleValueToken(m, type, value)
    [] type = "StringStart" -> HandleStringStart(m)
    [] type = "StringMiddle" -> HandleStringMiddle(m, value)
    [] type = "StringEnd" -> HandleStringEnd(m)
    [] type = "ArrayEnd" -> HandleArrayEnd(m)
    [] type = "ObjectEnd" -> HandleObjectEnd(m)

(***************************************************************************)
(* Input.                                                                  *)
(***************************************************************************)
SkipPastWhitespace(buffer) == Drop(buffer, SpanLen(buffer, JsonWhitespace, 0))

\* this.buffer.trim(), for a buffer with the first lead characters stripped.
TrimEnd(buffer) == SubSeq(buffer, 1, Len(buffer) - SpanLenBack(buffer, TrimWhitespace, 0))

\* this.buffer.trim()
Trim(buffer) == TrimEnd(Drop(buffer, SpanLen(buffer, TrimWhitespace, 0)))

\* check() of expectEndOfContent, on the buffer already trimmed.
CheckTrimmed(m) ==
  IF m.buffer = <<>> THEN m ELSE Throw(m, "Unexpected trailing content")

\* check() of expectEndOfContent
Check(m) == CheckTrimmed([m EXCEPT !.buffer = Trim(@)])

\* this.buffer = this.buffer.slice(n)
Consume(m, n) == [m EXCEPT !.buffer = Drop(@, n)]

\* this.input.skipPastWhitespace()
SkipWhitespace(m) == [m EXCEPT !.buffer = SkipPastWhitespace(@)]

(***************************************************************************)
(* Tokenizer.  A tokenize method is modelled up to its first emit or tail  *)
(* call: it gives the machine so far, the token to emit (or "none"), what   *)
(* the method does to the tokenizer after the emit returned, and the       *)
(* method that runs next (or "stop").  Tokenize runs the methods in turn,  *)
(* so that an emit reaches the token handler from one place.               *)
(***************************************************************************)
LiteralNull == Str(<<"n", "u", "l", "l">>)

LiteralTrue == Str(<<"t", "r", "u", "e">>)

LiteralFalse == Str(<<"f", "a", "l", "s", "e">>)

Stop(m) == [m |-> m, token |-> "none", value |-> Undefined, post |-> "none", next |-> "stop"]

Goto(m, method) ==
  [m |-> m, token |-> "none", value |-> Undefined, post |-> "none", next |-> method]

EmitThen(m, token, value, post, next) ==
  [m |-> m, token |-> token, value |-> value, post |-> post, next |-> next]

\* A string token belongs to an object key when the tokenizer is in a
\* string that was pushed over AfterObjectKey.
InKey(stack) ==
  Len(stack) >= 2 /\ stack[Len(stack)] = "InString" /\ stack[Len(stack) - 1] = "AfterObjectKey"

\* What the handling of a token is remembered by: the token, whether it is a
\* token of an object key, whether handling it changed the value that the
\* parser yields, and how many times handling it called the completeCallback.
Token(type, value, isKey, changed, reported) ==
  [type |-> type, value |-> value, key |-> isKey, changed |-> changed,
   reported |-> reported]

Logged(m, m2, type, value) ==
  [m2 EXCEPT !.tokens = Append(@, Token(type, value,
                                        type \in {"StringStart", "StringMiddle", "StringEnd"} /\ InKey(m.stack),
                                        m2.heap # m.heap \/ m2.toplevelValue # m.toplevelValue,
                                        Len(m2.completed) - Len(m.completed))),
             !.delivered = Append(@, [type |-> type, value |-> value])]

\* #emit(type, value)
Emit(m, type, value) ==
  Logged(m, HandleToken([m EXCEPT !.emittedTokens = @ + 1], type, value), type, value)

\* parseJsonNumber(str); Undefined stands for the exception.
ParseJsonNumber(str) ==
  IF MatchesJsonNumberPattern(str) THEN NumberOf(str) ELSE Undefined

EmitNumber(m, number, post) ==
  IF number.t = "undefined" THEN Stop(Throw(m, "Invalid number"))
  ELSE EmitThen(m, "Number", number, post, "stop")

\* The number branch of #tokenizeValue; n is the length of the match of
\* /^[-+0123456789eE.]+/, which is also the index of the first match of
\* /[^-+0123456789eE.]/ if there is one.
\* A number that ends the buffer is emitted at once.
TokenizeNumberEager(m, n) ==
  EmitNumber(Consume(m, n), ParseJsonNumber(Take(m.buffer, n)),
             IF m.bufferComplete THEN "popExpectMore" ELSE "pop")

TokenizeNumberAt(m, n) ==
  IF m.bufferComplete
  THEN EmitNumber(Consume(m, n), ParseJsonNumber(Take(m.buffer, n)), "popExpectMore")
  ELSE IF n = Len(m.buffer)
  THEN Stop([m EXCEPT !.moreContentExpected = FALSE])
  ELSE EmitNumber(Consume(m, n), ParseJsonNumber(Take(m.buffer, n)), "pop")

\* A number branch that takes the number characters of the buffer for the
\* whole number.
TokenizeNumberWhole(m) == TokenizeNumberEager(m, SpanLen(m.buffer, NumberChars, 0))

TokenizeNumber(m) == TokenizeNumberAt(m, SpanLen(m.buffer, NumberChars, 0))

\* #tokenizeValue, after skipPastWhitespace
TokenizeValueAt(m) ==
  IF StartsWith(m.buffer, LiteralNull)
  THEN EmitThen(Consume(m, 4), "Null", Undefined, "pop", "stop")
  ELSE IF StartsWith(m.buffer, LiteralTrue)
  THEN EmitThen(Consume(m, 4), "Boolean", BooleanValue(TRUE), "pop", "stop")
  ELSE IF StartsWith(m.buffer, LiteralFalse)
  THEN EmitThen(Consume(m, 5), "Boolean", BooleanValue(FALSE), "pop", "stop")
  ELSE IF m.buffer = <<>> THEN Stop(m)
  ELSE IF IsNumberStart(m.buffer[1]) THEN TokenizeNumber(m)
  ELSE IF m.buffer[1] = Quote
  THEN EmitThen([m EXCEPT !.buffer = Tail(@), !.stack = Append(Pop(@), "InString")],
                "StringStart", Undefined, "none", "tokenizeString")
  ELSE IF m.buffer[1] = LBracket
  THEN EmitThen([m EXCEPT !.buffer = Tail(@), !.stack = Append(Pop(@), "StartArray")],
                "ArrayStart", Undefined, "none", "tokenizeArrayStart")
  ELSE IF m.buffer[1] = LBrace
  THEN EmitThen([m EXCEPT !.buffer = Tail(@), !.stack = Append(Pop(@), "StartObject")],
                "ObjectStart", Undefined, "none", "tokenizeObjectStart")
  ELSE Stop(m)

TokenizeValue(m) == TokenizeValueAt(SkipWhitespace(m))

\* The character an escape denotes, or -1.
EscapeValue(c) ==
  CASE c = 110 -> 10
    [] c = 114 -> 13
    [] c = 116 -> 9
    [] c = 98 -> 8
    [] c = 102 -> 12
    [] c = Backslash -> Backslash
    [] c = 47 -> 47
    [] c = Quote -> Quote
    [] OTHER -> 0 - 1

\* parseInt(hex, 16) of four hexadecimal digits
ParseHex(hex) ==
  ((HexVal(hex[1]) * 16 + HexVal(hex[2])) * 16 + HexVal(hex[3])) * 16 + HexVal(hex[4])

\* A round of #tokenizeString that drops a backslash that ends the buffer.
TokenizeStringDropping(m, n) ==
  IF n > 0
  THEN IF \E i \in 1..n : IsControl(m.buffer[i])
       THEN Stop(Throw(Consume(m, n), "Unescaped control character in string"))
       ELSE EmitThen(Consume(m, n), "StringMiddle", Take(m.buffer, n), "none", "tokenizeString")
  ELSE IF m.buffer = <<>> THEN Stop(m)
  ELSE IF m.buffer[1] = Quote
  THEN EmitThen(Consume(m, 1), "StringEnd", Undefined, "pop", "stop")
  ELSE IF Len(m.buffer) < 2 THEN Stop(Consume(m, 1))
  ELSE IF m.buffer[2] = LowerU
  THEN IF Len(m.buffer) < 6 THEN Stop(m)
       ELSE IF \E i \in 3..6 : ~IsHex(m.buffer[i])
       THEN Stop(Throw(m, "Bad Unicode escape in JSON"))
       ELSE EmitThen(Consume(m, 6), "StringMiddle", <<ParseHex(SubSeq(m.buffer, 3, 6))>>,
                     "none", "tokenizeString")
  ELSE IF EscapeValue(m.buffer[2]) < 0
  THEN Stop(Throw(Consume(m, 2), "Bad escape in string"))
  ELSE EmitThen(Consume(m, 2), "StringMiddle", <<EscapeValue(m.buffer[2])>>,
                "none", "tokenizeString")

\* One round of the loop of #tokenizeString; n is the length of the chunk
\* that takeUntil(/["\\]/) takes.  A round that emits a chunk ends there: the
\* next round takes the empty chunk and handles the character that
\* interrupted, as the code does in the same round.
TokenizeStringAt(m, n) ==
  IF n > 0
  THEN IF \E i \in 1..n : IsControl(m.buffer[i])
       THEN Stop(Throw(Consume(m, n), "Unescaped control character in string"))
       ELSE EmitThen(Consume(m, n), "StringMiddle", Take(m.buffer, n), "none", "tokenizeString")
  ELSE IF m.buffer = <<>> THEN Stop(m)
  ELSE IF m.buffer[1] = Quote
  THEN EmitThen(Consume(m, 1), "StringEnd", Undefined, "pop", "stop")
  ELSE IF Len(m.buffer) < 2 THEN Stop(m)
  ELSE IF m.buffer[2] = LowerU
  THEN IF Len(m.buffer) < 6 THEN Stop(m)
       ELSE IF \E i \in 3..6 : ~IsHex(m.buffer[i])
       THEN Stop(Throw(m, "Bad Unicode escape in JSON"))
       ELSE EmitThen(Consume(m, 6), "StringMiddle", <<ParseHex(SubSeq(m.buffer, 3, 6))>>,
                     "none", "tokenizeString")
  ELSE IF EscapeValue(m.buffer[2]) < 0
  THEN Stop(Throw(Consume(m, 2), "Bad escape in string"))
  ELSE EmitThen(Consume(m, 2), "StringMiddle", <<EscapeValue(m.buffer[2])>>,
                "none", "tokenizeString")

TokenizeString(m) == TokenizeStringAt(m, SpanLenUntil(m.buffer, StringBreakers, 0))

\* A #tokenizeArrayStart that ends the empty array with an ObjectEnd.
TokenizeArrayStartBrace(m) ==
  IF m.buffer = <<>> THEN Stop(m)
  ELSE IF m.buffer[1] = RBracket
  THEN EmitThen(Consume(m, 1), "ObjectEnd", Undefined, "pop", "stop")
  ELSE Goto([m EXCEPT !.stack = Pop(@) \o <<"AfterArrayValue", "ExpectingValue">>], "tokenizeValue")

\* #tokenizeArrayStart, after skipPastWhitespace
TokenizeArrayStartAt(m) ==
  IF m.buffer = <<>> THEN Stop(m)
  ELSE IF m.buffer[1] = RBracket
  THEN EmitThen(Consume(m, 1), "ArrayEnd", Undefined, "pop", "stop")
  ELSE Goto([m EXCEPT !.stack = Pop(@) \o <<"AfterArrayValue", "ExpectingValue">>], "tokenizeValue")

TokenizeArrayStart(m) == TokenizeArrayStartAt(SkipWhitespace(m))

\* #tokenizeAfterArrayValue, after skipPastWhitespace
TokenizeAfterArrayValueAt(m) ==
  IF m.buffer = <<>> THEN Stop(m)
  ELSE IF m.buffer[1] = RBracket
  THEN EmitThen(Consume(m, 1), "ArrayEnd", Undefined, "pop", "stop")
  ELSE IF m.buffer[1] = Comma
  THEN Goto([m EXCEPT !.buffer = Tail(@), !.stack = Append(@, "ExpectingValue")], "tokenizeValue")
  ELSE Stop(Throw(Consume(m, 1), "Expected , or ]"))

TokenizeAfterArrayValue(m) == TokenizeAfterArrayValueAt(SkipWhitespace(m))

\* case '"' of #tokenizeObjectStart and of #tokenizeBeforeObjectKey
TokenizeKeyStart(m) ==
  EmitThen([m EXCEPT !.buffer = Tail(@), !.stack = Pop(@) \o <<"AfterObjectKey", "InString">>],
           "StringStart", Undefined, "none", "tokenizeString")

\* #tokenizeObjectStart, after skipPastWhitespace
TokenizeObjectStartAt(m) ==
  IF m.buffer = <<>> THEN Stop(m)
  ELSE IF m.buffer[1] = RBrace
  THEN EmitThen(Consume(m, 1), "ObjectEnd", Undefined, "pop", "stop")
  ELSE IF m.buffer[1] = Quote THEN TokenizeKeyStart(m)
  ELSE Stop(Throw(Consume(m, 1), "Expected start of object key"))

TokenizeObjectStart(m) == TokenizeObjectStartAt(SkipWhitespace(m))

\* #tokenizeAfterObjectKey, after skipPastWhitespace
TokenizeAfterObjectKeyAt(m) ==
  IF m.buffer = <<>> THEN Stop(m)
  ELSE IF m.buffer[1] = Colon
  THEN Goto([m EXCEPT !.buffer = Tail(@),
                      !.stack = Pop(@) \o <<"AfterObjectValue", "ExpectingValue">>],
            "tokenizeValue")
  ELSE Stop(Throw(Consume(m, 1), "Expected colon after object key"))

TokenizeAfterObjectKey(m) == TokenizeAfterObjectKeyAt(SkipWhitespace(m))

\* A #tokenizeAfterObjectValue that pushes BeforeObjectKey on a comma and
\* leaves AfterObjectValue under it.
TokenizeAfterObjectValuePush(m) ==
  IF m.buffer = <<>> THEN Stop(m)
  ELSE IF m.buffer[1] = RBrace
  THEN EmitThen(Consume(m, 1), "ObjectEnd", Undefined, "pop", "stop")
  ELSE IF m.buffer[1] = Comma
  THEN Goto([m EXCEPT !.buffer = Tail(@), !.stack = Append(@, "BeforeObjectKey")],
            "tokenizeBeforeObjectKey")
  ELSE Stop(Throw(Consume(m, 1), "Expected , or } after object value"))

\* #tokenizeAfterObjectValue, after skipPastWhitespace
TokenizeAfterObjectValueAt(m) ==
  IF m.buffer = <<>> THEN Stop(m)
  ELSE IF m.buffer[1] = RBrace
  THEN EmitThen(Consume(m, 1), "ObjectEnd", Undefined, "pop", "stop")
  ELSE IF m.buffer[1] = Comma
  THEN Goto([m EXCEPT !.buffer = Tail(@), !.stack = Append(Pop(@), "BeforeObjectKey")],
            "tokenizeBeforeObjectKey")
  ELSE Stop(Throw(Consume(m, 1), "Expected , or } after object value"))

TokenizeAfterObjectValue(m) == TokenizeAfterObjectValueAt(SkipWhitespace(m))

\* #tokenizeBeforeObjectKey, after skipPastWhitespace
TokenizeBeforeObjectKeyAt(m) ==
  IF m.buffer = <<>> THEN Stop(m)
  ELSE IF m.buffer[1] = Quote THEN TokenizeKeyStart(m)
  ELSE Stop(Throw(Consume(m, 1), "Expected start of object key"))

TokenizeBeforeObjectKey(m) == TokenizeBeforeObjectKeyAt(SkipWhitespace(m))

\* The method that #tokenizeMore calls in a state of the tokenizer.
MethodOf(state) ==
  CASE state = "ExpectingValue" -> "tokenizeValue"
    [] state = "InString" -> "tokenizeString"
    [] state = "StartArray" -> "tokenizeArrayStart"
    [] state = "AfterArrayValue" -> "tokenizeAfterArrayValue"
    [] state = "StartObject" -> "tokenizeObjectStart"
    [] state = "AfterObjectKey" -> "tokenizeAfterObjectKey"
    [] state = "AfterObjectValue" -> "tokenizeAfterObjectValue"
    [] state = "BeforeObjectKey" -> "tokenizeBeforeObjectKey"

Method(m, method) ==
  CASE method = "tokenizeValue" -> TokenizeValue(m)
    [] method = "tokenizeString" -> TokenizeString(m)
    [] method = "tokenizeArrayStart" -> TokenizeArrayStart(m)
    [] method = "tokenizeAfterArrayValue" -> TokenizeAfterArrayValue(m)
    [] method = "tokenizeObjectStart" -> TokenizeObjectStart(m)
    [] method = "tokenizeAfterObjectKey" -> TokenizeAfterObjectKey(m)
    [] method = "tokenizeAfterObjectValue" -> TokenizeAfterObjectValue(m)
    [] method = "tokenizeBeforeObjectKey" -> TokenizeBeforeObjectKey(m)

\* A method that leaves the stack as it is after its emit returned.
AfterEmitKeeping(m, post, next) ==
  IF ~Ok(m) THEN [m |-> m, next |-> "stop"]
  ELSE [m |-> [m EXCEPT !.moreContentExpected = IF post = "popExpectMore" THEN TRUE ELSE @],
        next |-> next]

\* What a method does after its emit returned: this.#stack.pop(), and in the
\* number branch for a complete buffer this.input.moreContentExpected = true.
AfterEmit(m, post, next) ==
  IF ~Ok(m) THEN [m |-> m, next |-> "stop"]
  ELSE [m |-> [m EXCEPT !.stack = IF post = "none" THEN @ ELSE Pop(@),
                        !.moreContentExpected = IF post = "popExpectMore" THEN TRUE ELSE @],
        next |-> next]

\* The emit and the rest of a method.
Finish(s) ==
  IF ~Ok(s.m) THEN [m |-> s.m, next |-> "stop"]
  ELSE IF s.token = "none" THEN [m |-> s.m, next |-> s.next]
  ELSE AfterEmit(Emit(s.m, s.token, s.value), s.post, s.next)

\* The character a method decides on: the first of the buffer, past the
\* whitespace except in a string; NoInput when there is none.
NoInput == 0 - 1

InputOf(m) ==
  IF Top(m.stack) = "InString"
  THEN IF m.buffer = <<>> THEN NoInput ELSE m.buffer[1]
  ELSE IF SkipPastWhitespace(m.buffer) = <<>> THEN NoInput
  ELSE SkipPastWhitespace(m.buffer)[1]

\* What a run of a method is remembered by: the state and the character it
\* decided on, the token it emitted ("none" for none), the stack before and
\* after it, whether it returned rather than threw, and whether it left the
\* stack of the parser empty.
Step(m, token, m2) ==
  [state |-> Top(m.stack), input |-> InputOf(m), token |-> token,
   before |-> m.stack, after |-> m2.stack, returned |-> Ok(m2),
   emptied |-> m2.stateStack = <<>>]

\* A method from the machine m on: s is the method up to its emit.
Finished(m, s) ==
  CHOOSE t \in {[f EXCEPT !.m.steps = Append(@, Step(m, s.token, f.m))] : f \in {Finish(s)}} : TRUE

\* The methods #tokenizeMore() runs one after the other, each on the machine
\* the one before it left (bound once, as the one element of a set).
RECURSIVE Tokenize(_)
Tokenize(r) ==
  IF r.next = "stop" THEN r.m
  ELSE CHOOSE m \in {Tokenize(t) : t \in {Finished(r.m, s) : s \in {Method(r.m, r.next)}}} : TRUE

\* #tokenizeMore()
TokenizeMore(m) ==
  IF m.stack = <<>> THEN m
  ELSE Tokenize([m |-> m, next |-> MethodOf(Top(m.stack))])

(***************************************************************************)
(* Tokenizer.pump and Parser.next.  The code runs from one await of the    *)
(* upstream to the next; a position in it is the machine, the place (at),  *)
(* and which of the two pump calls of Parser.next is running (1 for the    *)
(* call in the loop, 2 for the call before the parser finishes).           *)
(*   "pump"        at the head of the loop of pump                         *)
(*   "expand"      pump awaits tryToExpandBuffer                           *)
(*   "eoc"         expectEndOfContent awaits tryToExpandBuffer             *)
(*   "pumpReturn"  pump returned                                           *)
(*   "yield", "done", "throw"   next() settled                             *)
(***************************************************************************)
At(m, at, which) == [m |-> m, at |-> at, which |-> which]

\* const start = this.#emittedTokens: tokens are counted from the start of
\* the call of pump.
StartPump(m, which) == At([m EXCEPT !.emittedTokens = 0], "pump", which)

\* expectEndOfContent after a check(): the loop awaits tryToExpandBuffer.
AwaitEndOfContent(m, which) == At(m, IF Ok(m) THEN "eoc" ELSE "throw", which)

\* pump returns: the call is remembered by which of the two calls of
\* Parser.next it is, the tokens it emitted, and the stack and the buffer
\* it leaves.
Returning(m, which) ==
  At([m EXCEPT !.pumped = Append(@, [which |-> which, emitted |-> m.emittedTokens,
                                     stack |-> m.stack, buffer |-> m.buffer])],
     "pumpReturn", which)

\* A round of pump that returns as soon as a token was emitted.
PumpRoundOnce(m, m1, which) ==
  IF ~Ok(m1) THEN At(m1, "throw", which)
  ELSE IF m1.emittedTokens > 0 THEN Returning(m1, which)
  ELSE IF m1.stack = <<>>
  THEN AwaitEndOfContent(Check([m1 EXCEPT !.moreContentExpected = FALSE]), which)
  ELSE At(m1, "expand", which)

\* One round of the loop of pump: m is the machine before #tokenizeMore()
\* and m1 the machine after it.
PumpRound(m, m1, which) ==
  IF ~Ok(m1) THEN At(m1, "throw", which)
  ELSE IF m1.emittedTokens > m.emittedTokens THEN At(m1, "pump", which)
  ELSE IF m1.emittedTokens > 0 THEN Returning(m1, which)
  ELSE IF m1.stack = <<>>
  THEN AwaitEndOfContent(Check([m1 EXCEPT !.moreContentExpected = FALSE]), which)
  ELSE At(m1, "expand", which)

\* A Parser.next that yields after every call of pump in its loop.
AfterPumpYielding(m, which) ==
  IF which = 2 THEN At([m EXCEPT !.finished = TRUE], "done", which)
  ELSE IF m.toplevelValue = Undefined
  THEN At(Throw(m, "Internal error: toplevelValue should not be undefined"), "throw", which)
  ELSE At(m, "yield", which)

\* Parser.next after a call of pump returned.
AfterPump(m, which) ==
  IF which = 2 THEN At([m EXCEPT !.finished = TRUE], "done", which)
  ELSE IF m.toplevelValue = Undefined
  THEN At(Throw(m, "Internal error: toplevelValue should not be undefined"), "throw", which)
  ELSE IF m.progressed THEN At(m, "yield", which)
  ELSE IF m.stateStack = <<>> THEN StartPump(m, 2)
  ELSE StartPump([m EXCEPT !.progressed = FALSE], 1)

\* The code from position r up to the next await or to the end of next().
RECURSIVE Run(_)
Run(r) ==
  CASE r.at = "pump" ->
         CHOOSE x \in {Run(s) : s \in {PumpRound(r.m, m1, r.which) :
                                           m1 \in {TokenizeMore(r.m)}}} : TRUE
    [] r.at = "pumpReturn" ->
         CHOOSE x \in {Run(s) : s \in {AfterPump(r.m, r.which)}} : TRUE
    [] OTHER -> r

\* Parser.next() up to its first round of pump.
ParserNext(m) ==
  IF m.finished THEN At(m, "done", 1)
  ELSE StartPump([m EXCEPT !.progressed = FALSE], 1)

\* tryToExpandBuffer when the upstream answers with a chunk: in pump the
\* loop goes on, in expectEndOfContent check() runs and the loop goes on.
ResumeWithChunk(m, chunk, at, which) ==
  IF at = "expand"
  THEN At([m EXCEPT !.buffer = @ \o chunk], "pump", which)
  ELSE AwaitEndOfContent(Check([m EXCEPT !.buffer = @ \o chunk]), which)

\* expectEndOfContent after its loop: the last check(), and pump returns.
EndOfContent(m, which) == IF Ok(m) THEN Returning(m, which) ELSE At(m, "throw", which)

\* A tryToExpandBuffer that takes done for the end of the content whether
\* more content is expected or not.
ResumeWithDoneLenient(m, at, which) ==
  IF at = "expand"
  THEN At([m EXCEPT !.bufferComplete = TRUE], "pump", which)
  ELSE EndOfContent(Check([m EXCEPT !.bufferComplete = TRUE]), which)

\* tryToExpandBuffer when the upstream answers done.
ResumeWithDone(m, at, which) ==
  IF m.moreContentExpected
  THEN At(Throw([m EXCEPT !.bufferComplete = TRUE], "Unexpected end of content"), "throw", which)
  ELSE IF at = "expand"
  THEN At([m EXCEPT !.bufferComplete = TRUE], "pump", which)
  ELSE EndOfContent(Check([m EXCEPT !.bufferComplete = TRUE]), which)

NoYield == [t |-> "none"]

(***************************************************************************)
(* The state: the upstream, the machine, where the parse task is           *)
(* suspended, and what the consumer has seen.                              *)
(***************************************************************************)
VARIABLES
  text,                 \* the whole text the upstream produces
  rest,                 \* the part of text not delivered yet
  upstreamDone,         \* the upstream has answered done
  readsAfterDone,       \* reads of the upstream after it answered done
  emptyChunks,          \* empty chunks delivered
  buffer,               \* Input.buffer
  bufferComplete,       \* Input.bufferComplete
  moreContentExpected,  \* Input.moreContentExpected
  stack,                \* Tokenizer.#stack
  emittedTokens,        \* Tokenizer.#emittedTokens, since the start of pump
  stateStack,           \* Parser.stateStack
  heap,                 \* the arrays and objects created
  toplevelValue,        \* Parser.toplevelValue
  finished,             \* Parser.finished
  progressed,           \* Parser.progressed
  pc,                   \* "idle", or the await the task is suspended at
  pumping,              \* which call of pump is suspended (0 when idle)
  result,               \* how the last next() settled: "none" before the
                        \* first, "value", "done", "error", or "over" for
                        \* the done of a stream that an error has ended
  error,                \* the message of the exception that rejected next()
  lastYield,            \* the value of the last yield
  prevYield,            \* the value of the yield before it
  tokens,               \* the tokens handled by the last step
  steps,                \* the runs of the tokenizer's methods in the last step
  delivered,            \* the tokens delivered to the handler, in order
  pumped,               \* the calls of pump that returned in the last step
  overridden,           \* the object entries a duplicate key has overridden
                        \* since the consumer last called next()
  completed             \* what the completeCallback was called with, in order

vars ==
  <<text, rest, upstreamDone, readsAfterDone, emptyChunks, buffer, bufferComplete,
    moreContentExpected, stack, emittedTokens, stateStack, heap, toplevelValue,
    finished, progressed, pc, pumping, result, error, lastYield, prevYield, tokens,
    steps, delivered, pumped, overridden, completed>>

Machine ==
  [buffer |-> buffer, bufferComplete |-> bufferComplete,
   moreContentExpected |-> moreContentExpected, stack |-> stack,
   emittedTokens |-> emittedTokens, stateStack |-> stateStack, heap |-> heap,
   toplevelValue |-> toplevelValue, finished |-> finished, progressed |-> progressed,
   error |-> NoError, tokens |-> <<>>, steps |-> <<>>, delivered |-> delivered,
   pumped |-> <<>>,
   overridden |-> overridden, completed |-> completed]

\* The state after the code ran up to position r.
Suspend(r) ==
  /\ buffer' = r.m.buffer
  /\ bufferComplete' = r.m.bufferComplete
  /\ moreContentExpected' = r.m.moreContentExpected
  /\ stack' = r.m.stack
  /\ emittedTokens' = r.m.emittedTokens
  /\ stateStack' = r.m.stateStack
  /\ heap' = r.m.heap
  /\ toplevelValue' = r.m.toplevelValue
  /\ finished' = r.m.finished
  /\ progressed' = r.m.progressed
  /\ tokens' = r.m.tokens
  /\ steps' = r.m.steps
  /\ delivered' = r.m.delivered
  /\ pumped' = r.m.pumped
  /\ overridden' = r.m.overridden
  /\ completed' = r.m.completed
  /\ error' = r.m.error
  /\ pc' = IF r.at \in {"expand", "eoc"} THEN r.at ELSE "idle"
  /\ pumping' = IF r.at \in {"expand", "eoc"} THEN r.which ELSE 0
  /\ result' = CASE r.at = "yield" -> "value"
                 [] r.at = "done" -> "done"
                 [] r.at = "throw" -> "error"
                 [] r.at = "over" -> "over"
                 [] OTHER -> result
  /\ lastYield' = IF r.at = "yield" THEN Snapshot(r.m.heap, r.m.toplevelValue) ELSE lastYield
  /\ prevYield' = IF r.at = "yield" THEN lastYield ELSE prevYield

Settle(r) == \E s \in {Run(r)} : Suspend(s)

(***************************************************************************)
(* The inputs: every text of at most MaxLen characters of Alphabet, and    *)
(* the documents of Docs.                                                  *)
(***************************************************************************)
Alphabet == {Code(c) : c \in {"[", "]", ",", "1", "\"", "a", " ", "NBSP"}}

ShortTexts == UNION {[1..n -> Alphabet] : n \in 0..MaxLen}

\* Literals, numbers and escapes.
ScalarDocs ==
  { Str(<<"t", "r", "u", "e">>),
    Str(<<"n", "u", "l", "l">>),
    Str(<<"f", "a", "l", "s", "e">>),
    Str(<<"3", ".", "1", "4">>),
    Str(<<"-", "1", ".", "5", "e", "1">>),
    Str(<<"\"", "a", "\\", "n", "\"">>),
    Str(<<"\"", "\\", "u", "0", "0", "4", "1", "\"">>),
    Str(<<"\"", "a", "\\", "u", "d", "8", "3", "d", "\"">>) }

\* Objects and nested containers; two documents repeat a key.
ContainerDocs ==
  { Str(<<"{", "\"", "a", "\"", ":", "1", "}">>),
    Str(<<"{", "\"", "a", "b", "\"", ":", "\"", "b", "c", "\"", "}">>),
    Str(<<"{", "\"", "a", "\"", ":", "1", ",", "\"", "a", "b", "\"", ":", "2", "}">>),
    Str(<<"{", "\"", "a", "\"", ":", "[", "1", "]", ",", "\"", "b", "\"", ":", "{", "}", "}">>),
    Str(<<"[", "[", "1", "]", ",", "\"", "a", "b", "\"", "]">>),
    Str(<<"[", "1", "2", ",", "n", "u", "l", "l", "]">>),
    Str(<<"[", "1", ",", "2", "]">>),
    Str(<<"[", "\"", "a", "\"", ",", "1", "]">>),
    Str(<<"{", "\"", "a", "\"", ":", "1", ",", "\"", "a", "\"", ":", "\"", "b", "\"", "}">>),
    Str(<<"{", "\"", "a", "\"", ":", "1", ",", "\"", "a", "\"", ":", "2", "}">>),
    Str(<<"{", "\"", "a", "\"", ":", "[", "]", ",", "\"", "a", "\"", ":", "[", "1", "]", "}">>),
    Str(<<"{", "\"", "a", "\"", ":", "\"", "b", "\"", ",", "\"", "b", "\"", ":", "1", ",",
          "\"", "a", "\"", ":", "\"", "\"", "}">>) }

\* Texts that end early, and texts that are not JSON.
BrokenDocs ==
  { Str(<<"[", "1", ",", " ", "2">>),
    Str(<<"[", "1", ",", "\"", "a">>),
    Str(<<"{", "\"", "a", "\"", ":", "1", ",">>),
    Str(<<"n", "u", "l">>),
    Str(<<"[", "1", ",", "2", "]", " ", "g", "a", "r", "b", "a", "g", "e">>),
    Str(<<"\t", "\n", "\r", " ", "\n">>),
    Str(<<"[", "t", "r", "u", "]">>),
    Str(<<"1", ".">>),
    Str(<<"-">>),
    Str(<<"0", "1">>),
    Str(<<"1", "VT">>),
    Str(<<"[", "1", "]", "\f">>),
    Str(<<"{", "}", "a">>),
    Str(<<"{", "\"", "a", "\"", "1", "}">>),
    Str(<<"{", "1", "}">>),
    Str(<<"{", "\"", "a", "\"", ":", "1", ",", "}">>),
    Str(<<"\"", "\t", "\"">>),
    Str(<<"\"", "a", "\t", "\"">>),
    Str(<<"\"", "\\", "x", "\"">>) }

Docs == ScalarDocs \cup ContainerDocs \cup BrokenDocs

Texts == ShortTexts \cup Docs

Init ==
  /\ text \in Texts
  /\ rest = text
  /\ upstreamDone = FALSE
  /\ readsAfterDone = 0
  /\ emptyChunks = 0
  /\ buffer = <<>>
  /\ bufferComplete = FALSE
  /\ moreContentExpected = TRUE
  /\ stack = <<"ExpectingValue">>
  /\ emittedTokens = 0
  /\ stateStack = <<InitialState>>
  /\ heap = <<>>
  /\ toplevelValue = Undefined
  /\ finished = FALSE
  /\ progressed = FALSE
  /\ pc = "idle"
  /\ pumping = 0
  /\ result = "none"
  /\ error = NoError
  /\ lastYield = NoYield
  /\ prevYield = NoYield
  /\ tokens = <<>>
  /\ steps = <<>>
  /\ delivered = <<>>
  /\ pumped = <<>>
  /\ overridden = {}
  /\ completed = <<>>

upstreamVars == <<text, rest, upstreamDone, readsAfterDone, emptyChunks>>

\* The consumer calls next(); it does so again only after the previous call
\* settled with a value.
Pull ==
  /\ pc = "idle"
  /\ result \in {"none", "value"}
  /\ Settle(ParserNext([Machine EXCEPT !.overridden = {}]))
  /\ UNCHANGED upstreamVars

\* The upstream answers the read the task awaits with the next chunk, of
\* any length.
DeliverChunk ==
  /\ pc # "idle"
  /\ ~upstreamDone
  /\ \E k \in 0..Len(rest) :
       /\ k = 0 => emptyChunks < MaxEmpty
       /\ rest' = Drop(rest, k)
       /\ emptyChunks' = IF k = 0 THEN emptyChunks + 1 ELSE emptyChunks
       /\ Settle(ResumeWithChunk(Machine, Take(rest, k), pc, pumping))
  /\ UNCHANGED <<text, upstreamDone, readsAfterDone>>

\* The upstream answers the read the task awaits with done: it has
\* delivered the whole text.  It answers done again when it is read again.
\* The reads after done are counted up to MaxReadsAfterDone: a task that
\* reads the exhausted upstream, gets done and reads it again without end
\* is a state that this step leaves as it is, with the call of next() still
\* pending.
DeliverDone ==
  /\ pc # "idle"
  /\ rest = <<>>
  /\ upstreamDone' = TRUE
  /\ readsAfterDone' = IF upstreamDone /\ readsAfterDone < MaxReadsAfterDone
                       THEN readsAfterDone + 1 ELSE readsAfterDone
  /\ Settle(ResumeWithDone(Machine, pc, pumping))
  /\ UNCHANGED <<text, rest, emptyChunks>>

Next == Pull \/ DeliverChunk \/ DeliverDone

\* A next() that calls Parser.next() whatever came before.
ParserNextAgain(m, failed) == ParserNext(m)

\* next() of the async generator parse() after it has finished, by the
\* return of yield* or by the exception that yield* threw: it answers done
\* and runs no code of the parser.
GeneratorNext(m, failed) == At(m, IF failed THEN "over" ELSE "done", 0)

\* The consumer calls next() after the stream has ended.
PullFinished ==
  /\ pc = "idle"
  /\ result \in {"done", "error", "over"}
  /\ Settle(GeneratorNext(Machine, result # "done"))
  /\ UNCHANGED upstreamVars

\* A consumer that goes on calling next() after the stream has ended.
PersistentNext == Next \/ PullFinished

PersistentSpec == Init /\ [][PersistentNext]_vars

Spec == Init /\ [][Next]_vars

\* The consumer iterates to the end (for await), and the upstream answers
\* every read.
FairSpec == Spec /\ WF_vars(Pull) /\ WF_vars(DeliverChunk) /\ WF_vars(DeliverDone)

(***************************************************************************)
(* The non-streaming parse, JSON.parse, as a reference: a recursive        *)
(* descent over the whole text by the grammar of ECMA-404.  The outcome is *)
(* "ok" with the value and the index after it, "eof" when the text ends    *)
(* where the grammar wants more (the text is a proper prefix of a          *)
(* document), or "bad".  An object keeps a repeated key at its first place *)
(* with its last value.                                                    *)
(***************************************************************************)
OracleOk(v, i) == [st |-> "ok", v |-> v, i |-> i]

OracleEof == [st |-> "eof", v |-> Undefined, i |-> 0]

OracleBad == [st |-> "bad", v |-> Undefined, i |-> 0]

\* The index of the first character at or after i that is not whitespace.
OracleSkip(s, i) ==
  IF \E j \in i..Len(s) : s[j] \notin {32, 9, 10, 13}
  THEN CHOOSE j \in i..Len(s) : s[j] \notin {32, 9, 10, 13} /\ \A k \in i..(j - 1) : s[k] \in {32, 9, 10, 13}
  ELSE Len(s) + 1

\* A literal at i.
OracleLiteral(s, i, lit, v) ==
  IF Len(s) - i + 1 >= Len(lit)
  THEN IF SubSeq(s, i, i + Len(lit) - 1) = lit THEN OracleOk(v, i + Len(lit)) ELSE OracleBad
  ELSE IF SubSeq(s, i, Len(s)) = SubSeq(lit, 1, Len(s) - i + 1) THEN OracleEof ELSE OracleBad

\* The index after the digits that start at i.
OracleDigitsEnd(s, i) ==
  IF \E j \in i..Len(s) : s[j] \notin 48..57
  THEN CHOOSE j \in i..Len(s) : s[j] \notin 48..57 /\ \A k \in i..(j - 1) : s[k] \in 48..57
  ELSE Len(s) + 1

\* number = [ minus ] int [ frac ] [ exp ], from i.
OracleNumber(s, i) ==
  LET a == IF s[i] = 45 THEN i + 1 ELSE i
      b == IF a <= Len(s) /\ s[a] = 48 THEN a + 1 ELSE OracleDigitsEnd(s, a)
      hasFrac == b <= Len(s) /\ s[b] = 46
      c == IF hasFrac THEN OracleDigitsEnd(s, b + 1) ELSE b
      hasExp == c <= Len(s) /\ s[c] \in {101, 69}
      d == IF hasExp /\ c + 1 <= Len(s) /\ s[c + 1] \in {43, 45} THEN c + 2 ELSE c + 1
      e == IF hasExp THEN OracleDigitsEnd(s, d) ELSE c
  IN  IF b = a THEN (IF a > Len(s) THEN OracleEof ELSE OracleBad)
      ELSE IF hasFrac /\ c = b + 1 THEN (IF c > Len(s) THEN OracleEof ELSE OracleBad)
      ELSE IF hasExp /\ e = d THEN (IF d > Len(s) THEN OracleEof ELSE OracleBad)
      ELSE OracleOk(NumberOf(SubSeq(s, i, e - 1)), e)

\* The characters of a string from i, after the opening quote.
RECURSIVE OracleString(_, _, _)
OracleString(s, i, acc) ==
  IF i > Len(s) THEN OracleEof
  ELSE IF s[i] = 34 THEN OracleOk(acc, i + 1)
  ELSE IF s[i] < 32 THEN OracleBad
  ELSE IF s[i] # 92 THEN OracleString(s, i + 1, Append(acc, s[i]))
  ELSE IF i + 1 > Len(s) THEN OracleEof
  ELSE IF s[i + 1] = 117
  THEN IF \E j \in (i + 2)..(i + 5) : j <= Len(s) /\ ~IsHex(s[j]) THEN OracleBad
       ELSE IF i + 5 > Len(s) THEN OracleEof
       ELSE OracleString(s, i + 6, Append(acc, ParseHex(SubSeq(s, i + 2, i + 5))))
  ELSE IF s[i + 1] \in {34, 92, 47} THEN OracleString(s, i + 2, Append(acc, s[i + 1]))
  ELSE IF s[i + 1] = 98 THEN OracleString(s, i + 2, Append(acc, 8))
  ELSE IF s[i + 1] = 102 THEN OracleString(s, i + 2, Append(acc, 12))
  ELSE IF s[i + 1] = 110 THEN OracleString(s, i + 2, Append(acc, 10))
  ELSE IF s[i + 1] = 114 THEN OracleString(s, i + 2, Append(acc, 13))
  ELSE IF s[i + 1] = 116 THEN OracleString(s, i + 2, Append(acc, 9))
  ELSE OracleBad

\* The members so far with key set to v.
OraclePut(obj, key, v) ==
  IF \E n \in 1..Len(obj.keys) : obj.keys[n] = key
  THEN [obj EXCEPT !.vals[CHOOSE n \in 1..Len(obj.keys) : obj.keys[n] = key] = v, !.dup = TRUE]
  ELSE [obj EXCEPT !.keys = Append(@, key), !.vals = Append(@, v)]

RECURSIVE OracleValue(_, _)
RECURSIVE OracleElements(_, _, _)
RECURSIVE OracleMembers(_, _, _)

\* value, from the first character at or after i0 that is not whitespace
OracleValue(s, i0) ==
  LET i == OracleSkip(s, i0)
  IN  IF i > Len(s) THEN OracleEof
      ELSE CASE s[i] = 91 ->
                  LET j == OracleSkip(s, i + 1)
                  IN  IF j > Len(s) THEN OracleEof
                      ELSE IF s[j] = 93 THEN OracleOk([t |-> "arr", items |-> <<>>], j + 1)
                      ELSE OracleElements(s, j, <<>>)
             [] s[i] = 123 ->
                  LET j == OracleSkip(s, i + 1)
                  IN  IF j > Len(s) THEN OracleEof
                      ELSE IF s[j] = 125
                      THEN OracleOk([t |-> "obj", keys |-> <<>>, vals |-> <<>>], j + 1)
                      ELSE OracleMembers(s, j, [keys |-> <<>>, vals |-> <<>>, dup |-> FALSE])
             [] s[i] = 34 ->
                  LET r == OracleString(s, i + 1, <<>>)
                  IN  IF r.st = "ok" THEN OracleOk(StringValue(r.v), r.i) ELSE r
             [] s[i] = 45 \/ s[i] \in 48..57 -> OracleNumber(s, i)
             [] s[i] = 110 -> OracleLiteral(s, i, <<110, 117, 108, 108>>, NullValue)
             [] s[i] = 116 -> OracleLiteral(s, i, <<116, 114, 117, 101>>, BooleanValue(TRUE))
             [] s[i] = 102 -> OracleLiteral(s, i, <<102, 97, 108, 115, 101>>, BooleanValue(FALSE))
             [] OTHER -> OracleBad

\* The elements of an array from i, where an element starts.
OracleElements(s, i, items) ==
  LET r == OracleValue(s, i)
      j == OracleSkip(s, r.i)
  IN  IF r.st # "ok" THEN r
      ELSE IF j > Len(s) THEN OracleEof
      ELSE IF s[j] = 44 THEN OracleElements(s, j + 1, Append(items, r.v))
      ELSE IF s[j] = 93 THEN OracleOk([t |-> "arr", items |-> Append(items, r.v)], j + 1)
      ELSE OracleBad

\* The members of an object from i, where a key starts after whitespace.
OracleMembers(s, i, obj) ==
  LET i1 == OracleSkip(s, i)
      k == OracleString(s, i1 + 1, <<>>)
      j == OracleSkip(s, k.i)
      r == OracleValue(s, j + 1)
      j2 == OracleSkip(s, r.i)
      put == OraclePut(obj, k.v, r.v)
  IN  IF i1 > Len(s) THEN OracleEof
      ELSE IF s[i1] # 34 THEN OracleBad
      ELSE IF k.st # "ok" THEN k
      ELSE IF j > Len(s) THEN OracleEof
      ELSE IF s[j] # 58 THEN OracleBad
      ELSE IF r.st # "ok" THEN r
      ELSE IF j2 > Len(s) THEN OracleEof
      ELSE IF s[j2] = 44 THEN OracleMembers(s, j2 + 1, put)
      ELSE IF s[j2] = 125
      THEN OracleOk([t |-> "obj", keys |-> put.keys, vals |-> put.vals], j2 + 1)
      ELSE OracleBad

\* JSON.parse(s): the value, then nothing but whitespace.
JsonParse(s) ==
  LET r == OracleValue(s, 1)
  IN  IF r.st # "ok" THEN r
      ELSE IF OracleSkip(s, r.i) > Len(s) THEN r
      ELSE OracleBad

\* JSON.parse accepts the text.
IsValidJson(s) == JsonParse(s).st = "ok"

\* A yielded value without the identities of its containers.
RECURSIVE Plain(_)
Plain(tree) ==
  CASE tree.t = "arr" ->
         [t |-> "arr", items |-> [i \in 1..Len(tree.items) |-> Plain(tree.items[i])]]
    [] tree.t = "obj" ->
         [t |-> "obj", keys |-> tree.keys,
          vals |-> [i \in 1..Len(tree.vals) |-> Plain(tree.vals[i])]]
    [] OTHER -> tree

(***************************************************************************)
(* Final correctness and rejection.                                        *)
(***************************************************************************)
\* C1: for a text that JSON.parse accepts, under every chunking (empty
\* chunks included), no call of next() rejects, the iteration ends without
\* reading the exhausted upstream over and over, and when it has ended at
\* least one value was yielded and the last one is structurally equal to
\* JSON.parse of the text.
C1_FinalCorrectness ==
  IsValidJson(text) =>
    /\ result # "error"
    /\ readsAfterDone < MaxReadsAfterDone
    /\ result = "done" => (lastYield # NoYield /\ Plain(lastYield) = JsonParse(text).v)

\* A document with a container was delivered with an empty chunk among its
\* chunks, was yielded more than once, and the iteration has ended.
C1_Witness ==
  /\ IsValidJson(text)
  /\ result = "done"
  /\ emptyChunks > 0
  /\ prevYield # NoYield
  /\ lastYield.t = "obj"
  /\ Len(lastYield.keys) = 2

\* C2: for a text that JSON.parse rejects, under every chunking, the
\* iteration never completes normally.
C2_RejectionParity == ~IsValidJson(text) => result # "done"

(***************************************************************************)
(* End of the input.                                                       *)
(***************************************************************************)
\* C3: when the upstream has reported done after a text that is a proper
\* prefix of a document (JSON.parse runs out of input), under every
\* chunking, some call of next() rejects.
C3_TruncatedFails ==
  (upstreamDone /\ JsonParse(text).st = "eof") ~> (result = "error")

\* The text is a document followed by more characters, one of them not
\* space, tab, line feed or carriage return, and is not a document itself.
HasTrailingContent(s) ==
  /\ ~IsValidJson(s)
  /\ \E k \in 1..Len(s) :
       /\ IsValidJson(Take(s, k))
       /\ \E i \in (k + 1)..Len(s) : s[i] \notin JsonWhitespace

\* C4: only space, tab, line feed and carriage return are whitespace: a
\* text with any other character after its closed top-level value (a
\* no-break space included) never completes normally.
C4_TrailingContentRejected == HasTrailingContent(text) => result # "done"

(***************************************************************************)
(* The values between yields.                                              *)
(***************************************************************************)
\* The value the parser holds now: what a consumer sees through the
\* containers it was given.
CurrentValue == Snapshot(heap, toplevelValue)

\* The null, boolean and number values of a tree.
RECURSIVE Scalars(_)
Scalars(v) ==
  CASE v.t = "arr" -> UNION {Scalars(v.items[i]) : i \in 1..Len(v.items)}
    [] v.t = "obj" -> UNION {Scalars(v.vals[i]) : i \in 1..Len(v.vals)}
    [] v.t \in {"null", "bool", "num"} -> {v}
    [] OTHER -> {}

\* The text has w at some place.
Contains(s, w) ==
  \E i \in 0..(Len(s) - Len(w)) : SubSeq(s, i + 1, i + Len(w)) = w

\* The maximal runs of number characters of the text that are numbers.
WrittenNumberRuns(s) ==
  {p \in (1..Len(s)) \X (1..Len(s)) :
     /\ p[1] <= p[2]
     /\ \A k \in p[1]..p[2] : s[k] \in NumberChars
     /\ p[1] = 1 \/ s[p[1] - 1] \notin NumberChars
     /\ p[2] = Len(s) \/ s[p[2] + 1] \notin NumberChars
     /\ MatchesJsonNumberPattern(SubSeq(s, p[1], p[2]))}

WrittenNumbers(s) == {NumberOf(SubSeq(s, p[1], p[2])) : p \in WrittenNumberRuns(s)}

\* The scalar is written in full in the text.
WrittenInFull(v, s) ==
  CASE v.t = "num" -> v \in WrittenNumbers(s)
    [] v.t = "null" -> Contains(s, LiteralNull)
    [] v = BooleanValue(TRUE) -> Contains(s, LiteralTrue)
    [] OTHER -> Contains(s, LiteralFalse)

\* C5: null, true, false and numbers are atomic under every chunking: every
\* such value in the last yielded value, and in the value the parser holds
\* between yields, is a literal or a whole number of the text, never the
\* value of a part of one.
C5_AtomicScalars ==
  \A v \in Scalars(CurrentValue) \cup Scalars(lastYield) : WrittenInFull(v, text)

\* A number that ended a chunk was held back and is in the array, complete,
\* next to a literal, with more of the text still to come.
C5_Witness ==
  /\ ~bufferComplete
  /\ ~moreContentExpected
  /\ CurrentValue.t = "arr"
  /\ Len(CurrentValue.items) = 2
  /\ CurrentValue.items[1] = NumberOf(Str(<<"1", "2">>))
  /\ CurrentValue.items[2] = NullValue
  /\ rest # <<>>

(***************************************************************************)
(* Consecutive yields.                                                     *)
(***************************************************************************)
\* next() has just yielded a value, and had yielded one before: prevYield
\* and lastYield are consecutive yields.
JustYielded == pc = "idle" /\ result = "value" /\ prevYield # NoYield

Min(a, b) == IF a <= b THEN a ELSE b

\* Every position of both trees holds values of one type in both, but for
\* the positions at and below an overridden key.
RECURSIVE SameTypes(_, _)
SameTypes(a, b) ==
  /\ a.t = b.t
  /\ a.t = "arr" =>
       \A i \in 1..Min(Len(a.items), Len(b.items)) : SameTypes(a.items[i], b.items[i])
  /\ a.t = "obj" =>
       \A i \in 1..Len(a.keys), j \in 1..Len(b.keys) :
         (a.keys[i] = b.keys[j] /\ <<b.id, b.keys[j]>> \notin overridden)
           => SameTypes(a.vals[i], b.vals[j])

\* C6: between two consecutive yields, every position present in both holds
\* values of the same JSON type, except at an object key that a duplicate
\* key has overridden in between.
C6_TypeMonotonic == JustYielded => SameTypes(prevYield, lastYield)

\* Two consecutive yields share the positions of an object, of its array and
\* of the number in it.
C6_Witness ==
  /\ JustYielded
  /\ overridden = {}
  /\ prevYield.t = "obj"
  /\ Len(prevYield.keys) = 1
  /\ prevYield.vals[1].t = "arr"
  /\ Len(prevYield.vals[1].items) = 1
  /\ Len(lastYield.keys) = 2
  /\ lastYield.vals[2].t = "obj"

\* A string at a position of both trees has grown, or is the same.
RECURSIVE StringsGrow(_, _)
StringsGrow(a, b) ==
  /\ (a.t = "str" /\ b.t = "str") => StartsWith(b.s, a.s)
  /\ (a.t = "arr" /\ b.t = "arr") =>
       \A i \in 1..Min(Len(a.items), Len(b.items)) : StringsGrow(a.items[i], b.items[i])
  /\ (a.t = "obj" /\ b.t = "obj") =>
       \A i \in 1..Len(a.keys), j \in 1..Len(b.keys) :
         a.keys[i] = b.keys[j] => StringsGrow(a.vals[i], b.vals[j])

\* C7: when no duplicate key came in between, a string at a position of two
\* consecutive yields starts, in the later one, with what it was in the
\* earlier one.
C7_StringsOnlyGrow ==
  (JustYielded /\ overridden = {}) => StringsGrow(prevYield, lastYield)

\* A string in an array was yielded in part, then with more of it.
C7_Witness ==
  /\ JustYielded
  /\ overridden = {}
  /\ prevYield.t = "arr"
  /\ Len(prevYield.items) = 2
  /\ prevYield.items[2] = StringValue(Str(<<"a">>))
  /\ lastYield.items[2] = StringValue(Str(<<"a", "b">>))

\* A container at a position of both trees kept its entries but the last
\* as they were, and its keys; the last entry may have changed, within the
\* same rule.
RECURSIVE TailOnly(_, _)
TailOnly(a, b) ==
  /\ (a.t = "arr" /\ b.t = "arr") =>
       /\ Len(a.items) <= Len(b.items)
       /\ \A i \in 1..(Len(a.items) - 1) : Plain(a.items[i]) = Plain(b.items[i])
       /\ Len(a.items) > 0 => TailOnly(a.items[Len(a.items)], b.items[Len(a.items)])
  /\ (a.t = "obj" /\ b.t = "obj") =>
       /\ Len(a.keys) <= Len(b.keys)
       /\ \A i \in 1..Len(a.keys) : a.keys[i] = b.keys[i]
       /\ \A i \in 1..(Len(a.keys) - 1) : Plain(a.vals[i]) = Plain(b.vals[i])
       /\ Len(a.keys) > 0 => TailOnly(a.vals[Len(a.keys)], b.vals[Len(a.keys)])

\* C8: when no duplicate key came in between, an array or object at a
\* position of two consecutive yields has only gained entries at its end or
\* had its last entry changed: the entries of the earlier one, but the last,
\* are structurally the same in the later one.
C8_AppendOnlyAtTail ==
  (JustYielded /\ overridden = {}) => TailOnly(prevYield, lastYield)

\* An array in an array was yielded empty; in the next yield it has an
\* element and the outer array has a second entry.
C8_Witness ==
  /\ JustYielded
  /\ overridden = {}
  /\ prevYield.t = "arr"
  /\ Len(prevYield.items) = 1
  /\ prevYield.items[1].t = "arr"
  /\ prevYield.items[1].items = <<>>
  /\ Len(lastYield.items) = 2
  /\ Len(lastYield.items[1].items) = 1

(***************************************************************************)
(* Object keys.                                                            *)
(***************************************************************************)
\* The key as it is written in a text, for a key without escapes.
Quoted(key) == <<Quote>> \o key \o <<Quote>>

\* The number of places of the text that have w.
Occurrences(s, w) ==
  Cardinality({i \in 0..(Len(s) - Len(w)) : SubSeq(s, i + 1, i + Len(w)) = w})

\* The key of the object that the parser has read in full and whose value
\* has not begun.
KeyAwaitingValue ==
  stateStack # <<>> /\ Top(stateStack).type = "InObjectExpectingValue"

IsContainer(v) == v.t \in {"arr", "obj"}

\* The containers of a are, in b, at the same positions and the same
\* instances.
RECURSIVE SameInstances(_, _)
SameInstances(a, b) ==
  IsContainer(a) =>
    /\ b.t = a.t
    /\ b.id = a.id
    /\ a.t = "arr" =>
         /\ Len(a.items) <= Len(b.items)
         /\ \A i \in 1..Len(a.items) : SameInstances(a.items[i], b.items[i])
    /\ a.t = "obj" =>
         \A i \in 1..Len(a.keys) :
           \E j \in 1..Len(b.keys) :
             b.keys[j] = a.keys[i] /\ SameInstances(a.vals[i], b.vals[j])

\* C10: containers are created once and updated in place: a top-level array
\* or object is the same instance in two consecutive yields, and when no
\* duplicate key came in between, so is the array or object at every
\* position of the earlier yield.
C10_ContainerIdentity ==
  JustYielded =>
    /\ IsContainer(prevYield) => (lastYield.t = prevYield.t /\ lastYield.id = prevYield.id)
    /\ overridden = {} => SameInstances(prevYield, lastYield)

\* An array in an array was yielded, and is the same instance in the next
\* yield, in which the outer array has one more entry.
C10_Witness ==
  /\ JustYielded
  /\ overridden = {}
  /\ prevYield.t = "arr"
  /\ Len(prevYield.items) = 1
  /\ prevYield.items[1].t = "arr"
  /\ Len(lastYield.items) = 2
  /\ lastYield.items[1].id = prevYield.items[1].id
  /\ lastYield.id = prevYield.id

(***************************************************************************)
(* One character per chunk.                                                *)
(***************************************************************************)
\* The colons of a text that are not in a string: one for each member of
\* each object.
RECURSIVE ColonsOutsideStrings(_, _, _)
ColonsOutsideStrings(s, i, inString) ==
  IF i > Len(s) THEN 0
  ELSE IF inString
  THEN IF s[i] = Backslash THEN ColonsOutsideStrings(s, i + 2, TRUE)
       ELSE ColonsOutsideStrings(s, i + 1, s[i] # Quote)
  ELSE (IF s[i] = Colon THEN 1 ELSE 0) + ColonsOutsideStrings(s, i + 1, s[i] = Quote)

\* The properties of the objects of a tree.
RECURSIVE PropertyCount(_)
PropertyCount(v) ==
  CASE v.t = "arr" ->
         IF v.items = <<>> THEN 0
         ELSE PropertyCount(Head(v.items)) + PropertyCount([v EXCEPT !.items = Tail(@)])
    [] v.t = "obj" ->
         IF v.keys = <<>> THEN 0
         ELSE 1 + PropertyCount(Head(v.vals))
                + PropertyCount([v EXCEPT !.keys = Tail(@), !.vals = Tail(@)])
    [] OTHER -> 0

\* A document in which some object has a key more than once.
HasDuplicateKey(s) ==
  IsValidJson(s) /\ ColonsOutsideStrings(s, 1, FALSE) # PropertyCount(JsonParse(s).v)

\* A document without whitespace and without duplicate keys, as
\* JSON.stringify writes one.
IsStringified(s) ==
  /\ IsValidJson(s)
  /\ ~HasDuplicateKey(s)
  /\ \A i \in 1..Len(s) : s[i] \notin JsonWhitespace

\* The test's stream of chunks of size 1.
CharInit == Init /\ IsStringified(text)

\* The upstream answers the read the task awaits with the next character.
DeliverChar ==
  /\ pc # "idle"
  /\ ~upstreamDone
  /\ rest # <<>>
  /\ rest' = Tail(rest)
  /\ Settle(ResumeWithChunk(Machine, Take(rest, 1), pc, pumping))
  /\ UNCHANGED <<text, upstreamDone, readsAfterDone, emptyChunks>>

CharNext == Pull \/ DeliverChar \/ DeliverDone

CharSpec == CharInit /\ [][CharNext]_vars

\* incrementalValues(value), the test's reference sequence.
RECURSIVE IncrementalValues(_)
RECURSIVE IncrementalItems(_, _)
RECURSIVE IncrementalMembers(_, _)

\* The values of an array while its element i and the ones after it arrive.
IncrementalItems(v, i) ==
  IF i > Len(v.items) THEN <<>>
  ELSE [j \in 1..Len(IncrementalValues(v.items[i])) |->
          [t |-> "arr", items |-> Append(SubSeq(v.items, 1, i - 1), IncrementalValues(v.items[i])[j])]]
       \o IncrementalItems(v, i + 1)

\* The values of an object while its member i and the ones after it arrive.
IncrementalMembers(v, i) ==
  IF i > Len(v.keys) THEN <<>>
  ELSE [j \in 1..Len(IncrementalValues(v.vals[i])) |->
          [t |-> "obj", keys |-> SubSeq(v.keys, 1, i),
           vals |-> Append(SubSeq(v.vals, 1, i - 1), IncrementalValues(v.vals[i])[j])]]
       \o IncrementalMembers(v, i + 1)

IncrementalValues(v) ==
  CASE v.t = "str" -> [i \in 1..(Len(v.s) + 1) |-> StringValue(SubSeq(v.s, 1, i - 1))]
    [] v.t = "arr" -> <<[t |-> "arr", items |-> <<>>]>> \o IncrementalItems(v, 1)
    [] v.t = "obj" -> <<[t |-> "obj", keys |-> <<>>, vals |-> <<>>]>> \o IncrementalMembers(v, 1)
    [] OTHER -> <<v>>

\* The last yield is entry i of the sequence and the yield before it is
\* entry i - 1 (none before the first).
YieldsAreEntries(iv, i) ==
  /\ Plain(lastYield) = iv[i]
  /\ IF i = 1 THEN prevYield = NoYield
     ELSE prevYield # NoYield /\ Plain(prevYield) = iv[i - 1]

\* C11: a document without whitespace fed one character per chunk yields
\* exactly the sequence incrementalValues of its value: every yield is the
\* entry that follows the one yielded before it, the first yield is the
\* first entry, and the iteration ends, without an error, after the last
\* entry (the entries are all different, so this fixes the sequence).
C11_IncrementalValues ==
  /\ result # "error"
  /\ lastYield # NoYield =>
       \E i \in 1..Len(IncrementalValues(JsonParse(text).v)) :
         YieldsAreEntries(IncrementalValues(JsonParse(text).v), i)
  /\ result = "done" =>
       /\ lastYield # NoYield
       /\ Plain(lastYield) =
            IncrementalValues(JsonParse(text).v)[Len(IncrementalValues(JsonParse(text).v))]

\* The object with an array and an object in it was fed one character per
\* chunk to its end.
C11_Witness ==
  /\ result = "done"
  /\ emptyChunks = 0
  /\ lastYield.t = "obj"
  /\ Len(lastYield.keys) = 2
  /\ Len(IncrementalValues(JsonParse(text).v)) = 4

(***************************************************************************)
(* What a yield has consumed.                                              *)
(***************************************************************************)
\* The text the upstream has delivered.
Received == SubSeq(text, 1, Len(text) - Len(rest))

\* next() has just yielded a value.
Yielded == pc = "idle" /\ result = "value"

\* The parser as it is constructed.
NewMachine ==
  [buffer |-> <<>>, bufferComplete |-> FALSE, moreContentExpected |-> TRUE,
   stack |-> <<"ExpectingValue">>, emittedTokens |-> 0, stateStack |-> <<InitialState>>,
   heap |-> <<>>, toplevelValue |-> Undefined, finished |-> FALSE, progressed |-> FALSE,
   error |-> NoError, tokens |-> <<>>, steps |-> <<>>, delivered |-> <<>>,
   pumped |-> <<>>,
   overridden |-> {}, completed |-> <<>>]

\* The calls of next() of a consumer that iterates from position r on, with
\* an upstream that has nothing more to deliver and answers done to the
\* first dones reads: the last value yielded, from last on.
RECURSIVE LastYieldFrom(_, _, _)
LastYieldFrom(r, dones, last) ==
  CASE r.at = "yield" ->
         LastYieldFrom(Run(ParserNext(r.m)), dones, Snapshot(r.m.heap, r.m.toplevelValue))
    [] r.at \in {"expand", "eoc"} /\ dones > 0 ->
         LastYieldFrom(Run(ResumeWithDone(r.m, r.at, r.which)), dones - 1, last)
    [] OTHER -> last

\* The last value that a new parser yields when its upstream delivers s as
\* one chunk and then answers done to dones reads.
LastYieldOn(s, dones) ==
  LastYieldFrom(Run(ResumeWithChunk(Run(ParserNext(NewMachine)).m, s, "expand", 1)),
                dones, NoYield)

\* The reads that the upstream has answered with done.
DoneReads == IF upstreamDone THEN readsAfterDone + 1 ELSE 0

\* C12: a yield has consumed everything that was available: when next() has
\* yielded a value, the tokenizer recognises no further token in the
\* characters it has buffered, and the value is the last one that a parser
\* yields when it gets all the text received so far as one chunk (and done
\* as often as the upstream has answered done).
C12_YieldConsumesBuffer ==
  Yielded =>
    /\ TokenizeMore(Machine).emittedTokens = emittedTokens
    /\ Plain(LastYieldOn(Received, DoneReads)) = Plain(lastYield)

\* An array with its first element was yielded, after an earlier yield,
\* with characters left in the buffer that start a token and do not end it.
C12_Witness ==
  /\ Yielded
  /\ buffer # <<>>
  /\ prevYield # NoYield
  /\ lastYield.t = "arr"
  /\ Len(lastYield.items) = 1
  /\ rest # <<>>

(***************************************************************************)
(* Duplicate keys.                                                         *)
(***************************************************************************)
\* No object of the tree has a key twice.
RECURSIVE KeysAreDistinct(_)
KeysAreDistinct(v) ==
  CASE v.t = "arr" -> \A i \in 1..Len(v.items) : KeysAreDistinct(v.items[i])
    [] v.t = "obj" ->
         /\ \A i, j \in 1..Len(v.keys) : v.keys[i] = v.keys[j] => i = j
         /\ \A i \in 1..Len(v.vals) : KeysAreDistinct(v.vals[i])
    [] OTHER -> TRUE

\* C13: for a document in which an object has a key more than once, the
\* final value has the key once, at the place of its first occurrence and
\* with the value of its last occurrence: it is what JSON.parse returns.
C13_DuplicateKeys ==
  (HasDuplicateKey(text) /\ result = "done") =>
    /\ KeysAreDistinct(lastYield)
    /\ Plain(lastYield) = JsonParse(text).v

\* The document {"a":"b","b":1,"a":""} was parsed to its end: the key a is
\* first and has the empty string of its second occurrence.
C13_Witness ==
  /\ HasDuplicateKey(text)
  /\ result = "done"
  /\ lastYield.t = "obj"
  /\ lastYield.keys = <<Str(<<"a">>), Str(<<"b">>)>>
  /\ lastYield.vals[1] = StringValue(<<>>)

(***************************************************************************)
(* The completeCallback.                                                   *)
(***************************************************************************)
\* completeValues(value) of the property tests: the values of the tree in
\* post-order, each with the path that leads to it from the value.
Entry(value, path) == [value |-> value, path |-> path]

Prefixed(segment, entries) ==
  [j \in 1..Len(entries) |-> Entry(entries[j].value, <<segment>> \o entries[j].path)]

RECURSIVE CompleteValues(_), CompleteItems(_, _), CompleteMembers(_, _)
CompleteValues(v) ==
  CASE v.t = "arr" -> Append(CompleteItems(v, Len(v.items)), Entry(v, <<>>))
    [] v.t = "obj" -> Append(CompleteMembers(v, Len(v.keys)), Entry(v, <<>>))
    [] OTHER -> <<Entry(v, <<>>)>>

\* The entries of the first n items of the array.
CompleteItems(v, n) ==
  IF n = 0 THEN <<>>
  ELSE CompleteItems(v, n - 1) \o Prefixed(IndexSegment(n - 1), CompleteValues(v.items[n]))

\* The entries of the first n members of the object.
CompleteMembers(v, n) ==
  IF n = 0 THEN <<>>
  ELSE CompleteMembers(v, n - 1) \o Prefixed(KeySegment(v.keys[n]), CompleteValues(v.vals[n]))

\* The values the callback was called with, in order.
ReportedValues == [i \in 1..Len(completed) |-> Plain(completed[i].value)]

\* The values of the tree in post-order.
PostOrderValues(v) == [i \in 1..Len(CompleteValues(v)) |-> CompleteValues(v)[i].value]

IsPrefix(s, t) == Len(s) <= Len(t) /\ s = Take(t, Len(s))

\* The tokens that end a value: a literal, a number, the end of a container
\* and the end of a string that is not a key.
EndsValue(token) ==
  \/ token.type \in {"Null", "Boolean", "Number", "ArrayEnd", "ObjectEnd"}
  \/ token.type = "StringEnd" /\ ~token.key

\* C14: for a document without duplicate keys, the callback is called once
\* by each token that ends a value and by no other token (the tokens of a
\* key among them); the values it was called with are the values of the
\* final tree in post-order, as far as the parse has come, and all of them,
\* the top-level value last, when the parse is done.
C14_CompleteOncePostOrder ==
  (IsValidJson(text) /\ ~HasDuplicateKey(text)) =>
    /\ \A i \in 1..Len(tokens) :
         tokens[i].reported = IF EndsValue(tokens[i]) THEN 1 ELSE 0
    /\ IsPrefix(ReportedValues, PostOrderValues(JsonParse(text).v))
    /\ result = "done" => ReportedValues = PostOrderValues(JsonParse(text).v)

\* The last step handled the end of the document {"a":[1],"b":{}}, for which
\* the callback was called once: it had been called with 1, [1] and {}, and
\* now with the document.
C14_Witness ==
  /\ IsValidJson(text) /\ ~HasDuplicateKey(text)
  /\ ReportedValues = PostOrderValues(JsonParse(text).v)
  /\ Len(completed) = 4
  /\ completed[1].value.t = "num"
  /\ completed[2].value.t = "arr"
  /\ completed[3].value.t = "obj"
  /\ completed[4].value.t = "obj" /\ Len(completed[4].value.keys) = 2
  /\ \E i \in 1..Len(tokens) : tokens[i].type = "ObjectEnd" /\ tokens[i].reported = 1

\* The value that the path leads to from the tree; Undefined if it leads
\* nowhere.
RECURSIVE ValueAt(_, _)
ValueAt(tree, path) ==
  IF path = <<>> THEN tree
  ELSE IF "index" \in DOMAIN Head(path)
  THEN IF tree.t = "arr" /\ Head(path).index + 1 \in 1..Len(tree.items)
       THEN ValueAt(tree.items[Head(path).index + 1], Tail(path))
       ELSE Undefined
  ELSE IF tree.t = "obj" /\ KeyIndex(tree.keys, Head(path).key) # 0
       THEN ValueAt(tree.vals[KeyIndex(tree.keys, Head(path).key)], Tail(path))
       ELSE Undefined

\* What the callback was called with, in order: the value and the list that
\* path.segments() returned.
ReportedEntries ==
  [i \in 1..Len(completed) |-> Entry(Plain(completed[i].value), completed[i].path.segments)]

\* C15: at every call of the callback, path.segments() called then does not
\* throw and returns the indices and keys that lead from the top-level value
\* of that moment to the value reported (the same instance, for a
\* container), the empty list for the top-level value; for a document
\* without duplicate keys the values and their paths are those of the
\* post-order of the final tree.
C15_PathSegments ==
  /\ \A i \in 1..Len(completed) :
       /\ ~completed[i].path.threw
       /\ ValueAt(completed[i].root, completed[i].path.segments) = completed[i].value
       /\ completed[i].path.segments = <<>> <=> completed[i].value = completed[i].root
  /\ (IsValidJson(text) /\ ~HasDuplicateKey(text)) =>
       IsPrefix(ReportedEntries, CompleteValues(JsonParse(text).v))

\* The callback was called for the 1 of {"a":[1],"b":{}}, with the key a and
\* the index 0, and for the array, with the key a.
C15_Witness ==
  /\ Len(completed) >= 2
  /\ completed[1].path = Returned(<<KeySegment(Str(<<"a">>)), IndexSegment(0)>>)
  /\ completed[2].path = Returned(<<KeySegment(Str(<<"a">>))>>)
  /\ completed[2].value.t = "arr"

\* The values and paths of a list of calls of the callback.
EntriesOf(calls) ==
  [i \in 1..Len(calls) |-> Entry(Plain(calls[i].value), calls[i].path.segments)]

\* The calls of next() of a consumer that iterates from position r on, with
\* an upstream that has nothing more to deliver and answers done to the
\* first dones reads: the calls of the callback when the iteration stops.
RECURSIVE CompletedFrom(_, _)
CompletedFrom(r, dones) ==
  CASE r.at = "yield" -> CompletedFrom(Run(ParserNext(r.m)), dones)
    [] r.at \in {"expand", "eoc"} /\ dones > 0 ->
         CompletedFrom(Run(ResumeWithDone(r.m, r.at, r.which)), dones - 1)
    [] OTHER -> r.m.completed

\* The calls of the callback of a new parser whose upstream delivers s as
\* one chunk and then answers done.
CompletedOn(s) ==
  CompletedFrom(Run(ResumeWithChunk(Run(ParserNext(NewMachine)).m, s, "expand", 1)),
                MaxReadsAfterDone + 1)

\* C16 as the specification states it: when the parse of a document is
\* done, the calls of the callback are the post-order of the final tree.
C16_PostOrderOfFinalTree ==
  (IsValidJson(text) /\ result = "done") =>
    ReportedEntries = CompleteValues(JsonParse(text).v)

\* C16, amended: under every partition of the document into chunks the
\* calls of the callback (values and paths) are, as far as the parse has
\* come, those that the parser makes when it gets the document as one
\* chunk, and all of them when the parse is done; for a document without
\* duplicate keys they are the post-order of the final tree.
C16_ChunkingIndependent ==
  IsValidJson(text) =>
    /\ IsPrefix(ReportedEntries, EntriesOf(CompletedOn(text)))
    /\ result = "done" =>
         /\ ReportedEntries = EntriesOf(CompletedOn(text))
         /\ ~HasDuplicateKey(text) => ReportedEntries = CompleteValues(JsonParse(text).v)

\* The parse of [[1],"ab"] is done and the callback was called four times;
\* the text came in several chunks, as an earlier yield had the outer array
\* with one element.
C16_Witness ==
  /\ IsValidJson(text)
  /\ result = "done"
  /\ Len(completed) = 4
  /\ completed[4].value.t = "arr"
  /\ prevYield # NoYield /\ prevYield.t = "arr"
  /\ Len(prevYield.items) = 1 /\ Len(lastYield.items) = 2

\* Every entry of the sequence s is an entry of the sequence t.
AllAmong(s, t) == \A j \in 1..Len(s) : \E i \in 1..Len(t) : t[i] = s[j]

\* C17 as the specification states it: a value that a later duplicate key
\* replaced is never reported, so that when the parse is done every value
\* the callback was called with is the value of the final tree at its path.
C17_ReplacedNotReported ==
  (IsValidJson(text) /\ result = "done") =>
    \A i \in 1..Len(completed) :
      Plain(ValueAt(lastYield, completed[i].path.segments)) = Plain(completed[i].value)

\* C17, amended: the callback is called for the earlier value when its
\* token is handled and for the later value when it is complete.  Every
\* token that ends a value makes one call, duplicate key or not; when the
\* parse is done every value of the final tree, with its path, is among the
\* calls, the top-level value is the last call, and with a duplicate key
\* there are more calls than the final tree has values; for {"a":1,"a":2}
\* the calls are 1, 2 and {"a":2}.
C17_ReplacedReportedToo ==
  IsValidJson(text) =>
    /\ \A i \in 1..Len(tokens) :
         tokens[i].reported = IF EndsValue(tokens[i]) THEN 1 ELSE 0
    /\ result = "done" =>
         /\ AllAmong(CompleteValues(JsonParse(text).v), ReportedEntries)
         /\ ReportedEntries[Len(completed)] = Entry(JsonParse(text).v, <<>>)
         /\ HasDuplicateKey(text) =>
              Len(completed) > Len(CompleteValues(JsonParse(text).v))
         /\ text = Str(<<"{", "\"", "a", "\"", ":", "1", ",", "\"", "a", "\"", ":", "2", "}">>) =>
              /\ Len(completed) = 3
              /\ completed[1].value = NumberOf(Str(<<"1">>))
              /\ completed[2].value = NumberOf(Str(<<"2">>))
              /\ Plain(completed[3].value) = JsonParse(text).v

\* The parse of {"a":1,"a":2} is done: the callback was called with 1 at the
\* key a, then with 2 at the key a, then with the object, which has 2 at a.
C17_Witness ==
  /\ HasDuplicateKey(text)
  /\ result = "done"
  /\ Len(completed) = 3
  /\ completed[1].value = NumberOf(Str(<<"1">>))
  /\ completed[1].path = Returned(<<KeySegment(Str(<<"a">>))>>)
  /\ completed[2].value = NumberOf(Str(<<"2">>))
  /\ completed[3].value.t = "obj"
  /\ completed[3].value.vals = <<NumberOf(Str(<<"2">>))>>

\* The array or object that was reported is now as it was reported.
Unchanged(value) == IsContainer(value) => Snapshot(heap, Ref(value.id)) = value

\* C18: a value that the callback was called with does not change
\* afterwards: a reported array or object is, in every later state, as it
\* was reported, and in a document without duplicate keys the value at the
\* reported path is, in every later state, the reported value.
C18_CompleteIsFinal ==
  \A i \in 1..Len(completed) :
    /\ Unchanged(completed[i].value)
    /\ (IsValidJson(text) /\ ~HasDuplicateKey(text)) =>
         ValueAt(CurrentValue, completed[i].path.segments) = completed[i].value

\* The inner array of [[1],"ab"] was reported, and tokens handled after it
\* have changed the top-level value: the string was pushed and has grown.
C18_Witness ==
  /\ IsValidJson(text) /\ ~HasDuplicateKey(text)
  /\ Len(completed) >= 2
  /\ completed[2].value.t = "arr"
  /\ completed[2].path = Returned(<<IndexSegment(0)>>)
  /\ CurrentValue # completed[2].root
  /\ CurrentValue.t = "arr" /\ Len(CurrentValue.items) = 2
  /\ CurrentValue.items[2] = StringValue(Str(<<"a">>))

(***************************************************************************)
(* Errors.                                                                 *)
(***************************************************************************)
\* A call of next() has failed.
Failed == result \in {"error", "over"}

\* C19: once a call of next() on the stream of parse() has failed, no later
\* call yields a value or fails differently, and nothing changes the value
\* the parser holds, the values it has yielded or the calls of the callback:
\* no token is handled.
C19_ErrorsAreTerminal ==
  [][Failed =>
       /\ Failed'
       /\ result' # "value"
       /\ UNCHANGED <<heap, toplevelValue, stateStack, emittedTokens, completed,
                      lastYield, prevYield>>]_vars

\* After a value was yielded a call of next() failed, and the consumer has
\* called next() again: the stream answered done.
C19_Witness ==
  /\ result = "over"
  /\ lastYield # NoYield
  /\ buffer # <<>>

\* The text has no character, or only spaces, tabs, line feeds and carriage
\* returns.
IsBlank(s) == \A i \in 1..Len(s) : s[i] \in JsonWhitespace

\* C20: when the text is empty or only whitespace, no value is ever yielded
\* and the iteration never completes normally; the first call of next() is
\* pending until the upstream reports done, and then it fails, with
\* "Unexpected end of content".
C20_BlankInputFails ==
  IsBlank(text) =>
    /\ lastYield = NoYield
    /\ result \in {"none", "error"}
    /\ completed = <<>>
    /\ upstreamDone =>
         /\ result = "error"
         /\ error = "Unexpected end of content"
         /\ pc = "idle"

\* The upstream delivered tab, line feed, carriage return, space and line
\* feed in more than one chunk and reported done: the call of next() failed.
C20_Witness ==
  /\ IsBlank(text)
  /\ Len(text) = 5
  /\ upstreamDone
  /\ result = "error"
  /\ buffer # text

(***************************************************************************)
(* The reads of the upstream.                                              *)
(***************************************************************************)
\* C21: the upstream is not read again after it has answered done, in any
\* call of next() up to the one that reports done.
C21_NoReadAfterDone == readsAfterDone = 0

(***************************************************************************)
(* Streams of listed chunks.                                               *)
(***************************************************************************)
ArrayOneTwo == Str(<<"[", "1", ",", "2", "]">>)

ArrayOneTwoGarbage ==
  Str(<<"[", "1", ",", "2", "]", " ", "g", "a", "r", "b", "a", "g", "e">>)

\* makeStream(...chunks): the length of the chunk that starts after the
\* first pos characters.  [1,2] comes as the chunks [, 1 and ,2]; 3.14 as
\* 3. and 14; every other text as one chunk.
ListedChunkLen(s, pos) ==
  CASE s = ArrayOneTwo -> IF pos < 2 THEN 1 ELSE 3
    [] s = Str(<<"3", ".", "1", "4">>) -> 2
    [] OTHER -> Len(s) - pos

\* The upstream answers the read the task awaits with the next listed chunk.
DeliverListed ==
  /\ pc # "idle"
  /\ ~upstreamDone
  /\ rest # <<>>
  /\ rest' = Drop(rest, ListedChunkLen(text, Len(text) - Len(rest)))
  /\ Settle(ResumeWithChunk(Machine,
                            Take(rest, ListedChunkLen(text, Len(text) - Len(rest))),
                            pc, pumping))
  /\ UNCHANGED <<text, upstreamDone, readsAfterDone, emptyChunks>>

ListedNext == Pull \/ DeliverListed \/ DeliverDone

ListedSpec == Init /\ [][ListedNext]_vars

EmptyArray == [t |-> "arr", items |-> <<>>]

\* The pair of the last yield and the one before it.
YieldPair == <<Plain(prevYield), Plain(lastYield)>>

\* C22 as the specification states it: when the parse of the chunks [, 1
\* and ,2] is done, the last two values yielded were [1] and [1,2].
C22_ThreeYields ==
  (text = ArrayOneTwo /\ result = "done") =>
    YieldPair = <<JsonParse(Str(<<"[", "1", "]">>)).v, JsonParse(ArrayOneTwo).v>>

\* C22, amended: for the chunks [, 1 and ,2] the values yielded are [] and
\* [1,2], in this order, and no other; then the iteration is done.
C22_TwoYields ==
  text = ArrayOneTwo =>
    /\ YieldPair \in { <<NoYield, NoYield>>, <<NoYield, EmptyArray>>,
                       <<EmptyArray, JsonParse(ArrayOneTwo).v>> }
    /\ result = "done" => YieldPair = <<EmptyArray, JsonParse(ArrayOneTwo).v>>
    /\ result # "error"

\* The chunk 1 has come after [] was yielded: the call of next() is pending
\* with 1 in the buffer, and ,2] is still to come.
C22_Witness ==
  /\ text = ArrayOneTwo
  /\ YieldPair = <<NoYield, EmptyArray>>
  /\ buffer = Str(<<"1">>)
  /\ rest = Str(<<",", "2", "]">>)
  /\ pc = "expand"

\* C23 as the specification states it: when the parse of the one chunk
\* [1,2] garbage has failed, the last two values yielded were [1] and [1,2].
C23_ThreeYieldsThenError ==
  (text = ArrayOneTwoGarbage /\ result = "error") =>
    YieldPair = <<JsonParse(Str(<<"[", "1", "]">>)).v, JsonParse(ArrayOneTwo).v>>

\* C23, amended: for the one chunk [1,2] garbage the only value yielded is
\* [1,2]; the call of next() after it fails with "Unexpected trailing
\* content", and the iteration is never done.
C23_OneYieldThenError ==
  text = ArrayOneTwoGarbage =>
    /\ YieldPair \in {<<NoYield, NoYield>>, <<NoYield, JsonParse(ArrayOneTwo).v>>}
    /\ result # "done"
    /\ result = "error" =>
         /\ YieldPair = <<NoYield, JsonParse(ArrayOneTwo).v>>
         /\ error = "Unexpected trailing content"
         /\ ~upstreamDone

\* [1,2] was yielded from the chunk [1,2] garbage and the next call failed.
C23_Witness ==
  /\ text = ArrayOneTwoGarbage
  /\ result = "error"
  /\ YieldPair = <<NoYield, JsonParse(ArrayOneTwo).v>>
  /\ rest = <<>>

(***************************************************************************)
(* The growth of strings.                                                  *)
(***************************************************************************)
\* A string at a position of both trees is longer in b and starts with
\* what it is in a.
RECURSIVE StringsGrowStrictly(_, _)
StringsGrowStrictly(a, b) ==
  /\ (a.t = "str" /\ b.t = "str") => (StartsWith(b.s, a.s) /\ Len(b.s) > Len(a.s))
  /\ (a.t = "arr" /\ b.t = "arr") =>
       \A i \in 1..Min(Len(a.items), Len(b.items)) :
         StringsGrowStrictly(a.items[i], b.items[i])
  /\ (a.t = "obj" /\ b.t = "obj") =>
       \A i \in 1..Len(a.keys), j \in 1..Len(b.keys) :
         a.keys[i] = b.keys[j] => StringsGrowStrictly(a.vals[i], b.vals[j])

\* A string at a position of both trees starts, in b, with what it is in a,
\* except at and below a key that a duplicate key has overridden during the
\* last call of next().
RECURSIVE StringsGrowExcept(_, _)
StringsGrowExcept(a, b) ==
  /\ (a.t = "str" /\ b.t = "str") => StartsWith(b.s, a.s)
  /\ (a.t = "arr" /\ b.t = "arr") =>
       \A i \in 1..Min(Len(a.items), Len(b.items)) :
         StringsGrowExcept(a.items[i], b.items[i])
  /\ (a.t = "obj" /\ b.t = "obj") =>
       \A i \in 1..Len(a.keys), j \in 1..Len(b.keys) :
         (a.keys[i] = b.keys[j] /\ <<b.id, b.keys[j]>> \notin overridden)
           => StringsGrowExcept(a.vals[i], b.vals[j])

\* C24 as the specification states it: for a valid document, a string at a
\* position of two consecutive yields is strictly longer in the later one.
C24_StrictPrefix ==
  (IsValidJson(text) /\ JustYielded) => StringsGrowStrictly(prevYield, lastYield)

\* C24, amended: for a valid document, a string at a position of two
\* consecutive yields starts, in the later one, with what it was in the
\* earlier one: it is longer or the same.  Only a position at or below a key
\* that a duplicate key has overridden between the two yields is exempt.
C24_Prefix ==
  (IsValidJson(text) /\ JustYielded) => StringsGrowExcept(prevYield, lastYield)

\* ["a"] was yielded and then ["a",1]: the string is at the same position
\* of both and has not changed.
C24_Witness ==
  /\ IsValidJson(text)
  /\ JustYielded
  /\ prevYield.t = "arr" /\ Len(prevYield.items) = 1
  /\ prevYield.items[1] = StringValue(Str(<<"a">>))
  /\ Len(lastYield.items) = 2
  /\ lastYield.items[1] = StringValue(Str(<<"a">>))

(***************************************************************************)
(* moreContentExpected.                                                    *)
(***************************************************************************)
\* The tokenizer expects a value and the buffer is the start of a number
\* with no character after it.
StalledOnNumber ==
  /\ stack # <<>> /\ Top(stack) = "ExpectingValue"
  /\ buffer # <<>> /\ IsNumberStart(buffer[1])
  /\ SpanLen(buffer, NumberChars, 0) = Len(buffer)
  /\ ~bufferComplete

\* C25: as long as no call of next() has failed, moreContentExpected is
\* false only while the tokenizer is stalled on a number with no terminator
\* yet or after the top-level value is closed; so it is true again once the
\* number has been emitted.
C25_MoreContentExpected ==
  (result # "error" /\ ~moreContentExpected) => (StalledOnNumber \/ stack = <<>>)

(***************************************************************************)
(* Termination.                                                            *)
(***************************************************************************)
\* C26: with an upstream that delivers the text in finitely many chunks and
\* then answers done to every read, every call of next() that is pending
\* settles: with a value, with done or with an error.
C26_EveryPullSettles == (pc # "idle") ~> (pc = "idle")

(***************************************************************************)
(* Syntax errors.                                                          *)
(***************************************************************************)
\* The characters that begin a value: n, t, f, -, a digit, ", [ and {.
ValueStarts ==
  {Code("n"), Code("t"), Code("f"), Minus, Quote, LBracket, LBrace} \cup Digits

\* The tokenizer expects a value and the next character of the buffer that
\* is not whitespace cannot begin one.
BadValueStart ==
  /\ stack # <<>> /\ Top(stack) = "ExpectingValue"
  /\ SkipPastWhitespace(buffer) # <<>>
  /\ Head(SkipPastWhitespace(buffer)) \notin ValueStarts

\* C27: a character that cannot begin a value, met where a value is
\* expected, makes the call of next() that reads it fail: the parser is
\* never left with such a character next in its buffer unless that call has
\* failed.
C27_BadValueStartFails == BadValueStart => result = "error"

(***************************************************************************)
(* The state transition table of the tokenizer.                            *)
(***************************************************************************)
\* The rows of the table for a state and the character the step decides
\* on: the token of each row and the stack it leaves, before being the
\* stack the step found.
Listed(state, c, before) ==
  CASE state = "ExpectingValue" ->
         CASE c = Code("n") -> {<<"Null", Pop(before)>>}
           [] c \in {Code("t"), Code("f")} -> {<<"Boolean", Pop(before)>>}
           [] c \in Digits \cup {Minus} -> {<<"Number", Pop(before)>>}
           [] c = Quote -> {<<"StringStart", Append(Pop(before), "InString")>>}
           [] c = LBracket -> {<<"ArrayStart", Append(Pop(before), "StartArray")>>}
           [] c = LBrace -> {<<"ObjectStart", Append(Pop(before), "StartObject")>>}
           [] OTHER -> {}
    [] state = "InString" ->
         CASE c = Quote -> {<<"StringEnd", Pop(before)>>}
           [] c = NoInput -> {}
           [] OTHER -> {<<"StringMiddle", before>>}
    [] state = "StartArray" ->
         CASE c = RBracket -> {<<"ArrayEnd", Pop(before)>>}
           [] c = NoInput -> {}
           [] OTHER -> {<<"none", Pop(before) \o <<"AfterArrayValue", "ExpectingValue">>>>}
    [] state = "AfterArrayValue" ->
         CASE c = RBracket -> {<<"ArrayEnd", Pop(before)>>}
           [] c = Comma -> {<<"none", Append(before, "ExpectingValue")>>}
           [] OTHER -> {}
    [] state = "StartObject" ->
         CASE c = RBrace -> {<<"ObjectEnd", Pop(before)>>}
           [] c = Quote -> {<<"StringStart", Pop(before) \o <<"AfterObjectKey", "InString">>>>}
           [] OTHER -> {}
    [] state = "AfterObjectKey" ->
         CASE c = Colon -> {<<"none", Pop(before) \o <<"AfterObjectValue", "ExpectingValue">>>>}
           [] OTHER -> {}
    [] state = "AfterObjectValue" ->
         CASE c = RBrace -> {<<"ObjectEnd", Pop(before)>>}
           [] c = Comma -> {<<"none", Append(Pop(before), "BeforeObjectKey")>>}
           [] OTHER -> {}
    [] state = "BeforeObjectKey" ->
         CASE c = Quote -> {<<"StringStart", Pop(before) \o <<"AfterObjectKey", "InString">>>>}
           [] OTHER -> {}

\* The inputs of the table that are more than one character: a literal, a
\* number, the content of a string and an escape.  A step that has the
\* first character of one may have to wait for the rest.
MayWait(state, c) ==
  \/ state = "ExpectingValue" /\ c \in Digits \cup {Minus, Code("n"), Code("t"), Code("f")}
  \/ state = "InString" /\ c = Backslash

\* The step emitted nothing and left the stack as it was.
NoTransition(step) == step.token = "none" /\ step.after = step.before

\* The step is the one the table lists for its state and input, or it is no
\* transition where the table lists none or the input is not whole yet.
Tabled(step) ==
  \/ <<step.token, step.after>> \in Listed(step.state, step.input, step.before)
  \/ /\ NoTransition(step)
     /\ Listed(step.state, step.input, step.before) = {} \/ MayWait(step.state, step.input)

\* C28: the stack starts as [ExpectingValue], and every run of a method of
\* the tokenizer that returns makes the transition that the table lists for
\* its state and input (the token and the stack it leaves), or none where
\* the table lists none.
C28_StepsRefineTable ==
  /\ (result = "none" /\ pc = "idle") => stack = <<"ExpectingValue">>
  /\ \A i \in 1..Len(steps) : steps[i].returned => Tabled(steps[i])

\* One call of next() ran the three transitions that emit nothing: of
\* StartArray on a character other than ], of AfterObjectKey on the colon
\* and of AfterObjectValue on the comma; and an ArrayEnd popped the stack.
C28_Witness ==
  /\ \E i \in 1..Len(steps) :
       /\ steps[i].state = "StartArray" /\ steps[i].input = Code("1")
       /\ steps[i].after = Pop(steps[i].before) \o <<"AfterArrayValue", "ExpectingValue">>
  /\ \E i \in 1..Len(steps) :
       /\ steps[i].state = "AfterObjectKey" /\ steps[i].input = Colon
       /\ steps[i].after = Pop(steps[i].before) \o <<"AfterObjectValue", "ExpectingValue">>
  /\ \E i \in 1..Len(steps) :
       /\ steps[i].state = "AfterObjectValue" /\ steps[i].input = Comma
       /\ steps[i].after = Append(Pop(steps[i].before), "BeforeObjectKey")
  /\ \E i \in 1..Len(steps) :
       /\ steps[i].state = "AfterArrayValue" /\ steps[i].token = "ArrayEnd"
       /\ steps[i].after = Pop(steps[i].before)

(***************************************************************************)
(* The tokens delivered to the handler.                                    *)
(***************************************************************************)
\* What is open after a value has ended: open lists, innermost last, what
\* each open place expects next: "value" for the top-level value, "item"
\* for an array, "key" and "member" for an object before a key and before
\* the value of a key.
ValueEnded(open) ==
  CASE Top(open) = "value" -> Pop(open)
    [] Top(open) = "member" -> Append(Pop(open), "key")
    [] OTHER -> open

\* The tokens ts from the i-th on are well-formed after tokens that left
\* open, inside a string or not.
RECURSIVE WellFormedFrom(_, _, _, _)
WellFormedFrom(ts, i, open, inString) ==
  IF i > Len(ts) THEN TRUE
  ELSE IF open = <<>> THEN FALSE
  ELSE IF inString
  THEN CASE ts[i].type = "StringMiddle" -> WellFormedFrom(ts, i + 1, open, TRUE)
         [] ts[i].type = "StringEnd" ->
              WellFormedFrom(ts, i + 1,
                             IF Top(open) = "key" THEN Append(Pop(open), "member")
                             ELSE ValueEnded(open),
                             FALSE)
         [] OTHER -> FALSE
  ELSE IF Top(open) = "key"
  THEN CASE ts[i].type = "StringStart" -> WellFormedFrom(ts, i + 1, open, TRUE)
         [] ts[i].type = "ObjectEnd" -> WellFormedFrom(ts, i + 1, ValueEnded(Pop(open)), FALSE)
         [] OTHER -> FALSE
  ELSE CASE ts[i].type \in {"Null", "Boolean", "Number"} ->
              WellFormedFrom(ts, i + 1, ValueEnded(open), FALSE)
         [] ts[i].type = "StringStart" -> WellFormedFrom(ts, i + 1, open, TRUE)
         [] ts[i].type = "ArrayStart" -> WellFormedFrom(ts, i + 1, Append(open, "item"), FALSE)
         [] ts[i].type = "ObjectStart" -> WellFormedFrom(ts, i + 1, Append(open, "key"), FALSE)
         [] ts[i].type = "ArrayEnd" /\ Top(open) = "item" ->
              WellFormedFrom(ts, i + 1, ValueEnded(Pop(open)), FALSE)
         [] OTHER -> FALSE

TypesOf(ts) == [i \in 1..Len(ts) |-> ts[i].type]

\* C29: the tokens delivered to the handler so far are always well-formed:
\* between a StringStart and its StringEnd there are only StringMiddle
\* tokens, an ArrayEnd or ObjectEnd closes the innermost open container and
\* is of its kind, in an object a whole key string and a value alternate,
\* and nothing follows the end of the top-level value.
C29_TokensWellFormed == WellFormedFrom(delivered, 1, <<"value">>, FALSE)

\* {"a":[1],"b":{}} has been tokenized to its end and the parse is done.
C29_Witness ==
  /\ result = "done"
  /\ TypesOf(delivered) =
       <<"ObjectStart", "StringStart", "StringMiddle", "StringEnd", "ArrayStart", "Number",
         "ArrayEnd", "StringStart", "StringMiddle", "StringEnd", "ObjectStart", "ObjectEnd",
         "ObjectEnd">>

(***************************************************************************)
(* The tokens and the chunking.                                            *)
(***************************************************************************)
\* The tokens ts from the i-th on, after acc, with the StringMiddle tokens
\* that follow one another made one.
RECURSIVE MergedFrom(_, _, _)
MergedFrom(ts, i, acc) ==
  IF i > Len(ts) THEN acc
  ELSE IF ts[i].type = "StringMiddle" /\ acc # <<>> /\ acc[Len(acc)].type = "StringMiddle"
  THEN MergedFrom(ts, i + 1, [acc EXCEPT ![Len(acc)].value = @ \o ts[i].value])
  ELSE MergedFrom(ts, i + 1, Append(acc, ts[i]))

Merged(ts) == MergedFrom(ts, 1, <<>>)

\* The calls of next() of a consumer that iterates from position r on, with
\* an upstream that has nothing more to deliver and answers done to the
\* first dones reads: the tokens delivered when the iteration stops.
RECURSIVE DeliveredFrom(_, _)
DeliveredFrom(r, dones) ==
  CASE r.at = "yield" -> DeliveredFrom(Run(ParserNext(r.m)), dones)
    [] r.at \in {"expand", "eoc"} /\ dones > 0 ->
         DeliveredFrom(Run(ResumeWithDone(r.m, r.at, r.which)), dones - 1)
    [] OTHER -> r.m.delivered

\* The tokens delivered by a new parser whose upstream delivers s as one
\* chunk and then answers done.
DeliveredOn(s) ==
  DeliveredFrom(Run(ResumeWithChunk(Run(ParserNext(NewMachine)).m, s, "expand", 1)),
                MaxReadsAfterDone + 1)

\* The same tokens: kind, order and payload.
SameTokens(a, b) ==
  /\ Len(a) = Len(b)
  /\ \A i \in 1..Len(a) : a[i].type = b[i].type /\ a[i].value = b[i].value

\* The tokens a are the first of the tokens b, the last of a being perhaps
\* a StringMiddle with the first part of the content.
FirstTokens(a, b) ==
  /\ Len(a) <= Len(b)
  /\ \A i \in 1..Len(a) :
       /\ a[i].type = b[i].type
       /\ IF i = Len(a) /\ a[i].type = "StringMiddle"
          THEN IsPrefix(a[i].value, b[i].value)
          ELSE a[i].value = b[i].value

\* Nothing more will be delivered: the call of next() has reported done or
\* failed, or the task reads an upstream that has answered done.
Ended == result \in {"done", "error"} \/ (upstreamDone /\ pc # "idle")

\* A control character is in a string of the text from the i-th character
\* on, not as part of an escape.
RECURSIVE ControlInString(_, _, _)
ControlInString(s, i, inString) ==
  IF i > Len(s) THEN FALSE
  ELSE IF inString
  THEN IF s[i] = Backslash THEN ControlInString(s, i + 2, TRUE)
       ELSE IsControl(s[i]) \/ ControlInString(s, i + 1, s[i] # Quote)
  ELSE ControlInString(s, i + 1, s[i] = Quote)

\* C30 as the specification states it: for every text, when nothing more
\* will be delivered the tokens delivered, with adjacent StringMiddle tokens
\* made one, are those delivered for the text as one chunk, made one
\* likewise.
C30_SameTokens == Ended => SameTokens(Merged(delivered), Merged(DeliveredOn(text)))

\* C30, amended: for a text with no unescaped control character in a
\* string, under every partition into chunks the tokens delivered, with
\* adjacent StringMiddle tokens made one, are the first of those delivered
\* for the text as one chunk, and all of them when nothing more will be
\* delivered.
C30_SameTokensUnlessControl ==
  ~ControlInString(text, 1, FALSE) =>
    /\ FirstTokens(Merged(delivered), Merged(DeliveredOn(text)))
    /\ Ended => SameTokens(Merged(delivered), Merged(DeliveredOn(text)))

\* The parse of a document is done, and a string of it reached the handler
\* as two StringMiddle tokens, one for each chunk.
C30_Witness ==
  /\ result = "done"
  /\ ~ControlInString(text, 1, FALSE)
  /\ \E i \in 1..Len(delivered) - 1 :
       delivered[i].type = "StringMiddle" /\ delivered[i + 1].type = "StringMiddle"
  /\ Len(Merged(delivered)) < Len(delivered)

(***************************************************************************)
(* Escapes and chunk boundaries.                                           *)
(***************************************************************************)
\* The characters that the tokenizer has taken from its buffer.
Consumed == SubSeq(text, 1, Len(text) - Len(rest) - Len(buffer))

\* The code unit that the escape \c of JSON stands for, or NoInput.
Unescaped(c) ==
  CASE c = Code("n") -> 10
    [] c = Code("r") -> 13
    [] c = Code("t") -> 9
    [] c = Code("b") -> 8
    [] c = Code("f") -> 12
    [] c \in {Code("\""), Code("\\"), Code("/")} -> c
    [] OTHER -> NoInput

Item(kind, value) == [kind |-> kind, value |-> value]

\* The items acc and after them the plain characters run, if there are any.
WithRun(acc, run) == IF run = <<>> THEN acc ELSE Append(acc, Item("run", run))

\* The strings of the text s read from the i-th character on: for each the
\* item start, its content as runs of plain characters and escapes, each
\* escape an item of its own with the one code unit it stands for, and the
\* item end; the item part for an escape that the text ends in.
RECURSIVE StringItems(_, _, _, _, _)
StringItems(s, i, inString, run, acc) ==
  IF i > Len(s) THEN WithRun(acc, run)
  ELSE IF ~inString
  THEN StringItems(s, i + 1, s[i] = Quote, <<>>,
                   IF s[i] = Quote THEN Append(acc, Item("start", <<>>)) ELSE acc)
  ELSE IF s[i] = Quote
  THEN StringItems(s, i + 1, FALSE, <<>>, Append(WithRun(acc, run), Item("end", <<>>)))
  ELSE IF s[i] # Backslash THEN StringItems(s, i + 1, TRUE, Append(run, s[i]), acc)
  ELSE IF i + 1 > Len(s) THEN Append(WithRun(acc, run), Item("part", <<>>))
  ELSE IF s[i + 1] = LowerU
  THEN IF i + 5 > Len(s) THEN Append(WithRun(acc, run), Item("part", <<>>))
       ELSE StringItems(s, i + 6, TRUE, <<>>,
                        Append(WithRun(acc, run),
                               Item("escape", <<((HexVal(s[i + 2]) * 16 + HexVal(s[i + 3])) * 16
                                                  + HexVal(s[i + 4])) * 16 + HexVal(s[i + 5])>>)))
  ELSE StringItems(s, i + 2, TRUE, <<>>,
                   Append(WithRun(acc, run), Item("escape", <<Unescaped(s[i + 1])>>)))

\* The tokens of strings among the tokens ts.
RECURSIVE StringTokensFrom(_, _, _)
StringTokensFrom(ts, i, acc) ==
  IF i > Len(ts) THEN acc
  ELSE StringTokensFrom(ts, i + 1,
                        IF ts[i].type \in {"StringStart", "StringMiddle", "StringEnd"}
                        THEN Append(acc, ts[i]) ELSE acc)

StringTokens(ts) == StringTokensFrom(ts, 1, <<>>)

\* The tokens ts from the i-th on are the items from the j-th on: a
\* StringStart for a start, a StringEnd for an end, one StringMiddle with
\* its code unit for an escape, and for a run one or more StringMiddle
\* tokens that divide it, used being the characters of the run already
\* matched.
RECURSIVE Fragments(_, _, _, _, _)
Fragments(ts, i, items, j, used) ==
  IF i > Len(ts) THEN j > Len(items)
  ELSE IF j > Len(items) THEN FALSE
  ELSE CASE ts[i].type = "StringStart" ->
              items[j].kind = "start" /\ Fragments(ts, i + 1, items, j + 1, 0)
         [] ts[i].type = "StringEnd" ->
              items[j].kind = "end" /\ Fragments(ts, i + 1, items, j + 1, 0)
         [] OTHER ->
              CASE items[j].kind = "escape" ->
                     ts[i].value = items[j].value /\ Fragments(ts, i + 1, items, j + 1, 0)
                [] items[j].kind = "run" ->
                     /\ ts[i].value # <<>>
                     /\ used + Len(ts[i].value) <= Len(items[j].value)
                     /\ ts[i].value = SubSeq(items[j].value, used + 1, used + Len(ts[i].value))
                     /\ IF used + Len(ts[i].value) = Len(items[j].value)
                        THEN Fragments(ts, i + 1, items, j + 1, 0)
                        ELSE Fragments(ts, i + 1, items, j, used + Len(ts[i].value))
                [] OTHER -> FALSE

\* C31: for a valid document under every chunking, as long as no call of
\* next() has failed: the string tokens delivered are exactly those of the
\* characters that the tokenizer has consumed, with each escape delivered
\* as one StringMiddle of its own that holds the one code unit the escape
\* stands for (the four hex digits of \u as they are), and the plain
\* characters between escapes as StringMiddle tokens that divide them.  So
\* an escape that a chunk boundary cuts is neither consumed in part nor
\* delivered, and the StringMiddle values of a string put together are its
\* decoded value.
C31_EscapesAtomic ==
  (IsValidJson(text) /\ result # "error") =>
    Fragments(StringTokens(delivered), 1, StringItems(Consumed, 1, FALSE, <<>>, <<>>), 1, 0)

\* The chunk ended among the hex digits of the escape of "a\ud83d": the
\* a has been delivered, the tokenizer waits with the part of the escape in
\* its buffer.
C31_Witness ==
  /\ text = Str(<<"\"", "a", "\\", "u", "d", "8", "3", "d", "\"">>)
  /\ buffer = Str(<<"\\", "u", "d", "8">>)
  /\ pc = "expand"
  /\ TypesOf(delivered) = <<"StringStart", "StringMiddle">>

(***************************************************************************)
(* A number that ends the stream.                                          *)
(***************************************************************************)
\* The text is a JSON number and nothing else.
IsNumberText == IsValidJson(text) /\ \A i \in 1..Len(text) : text[i] \in NumberChars

\* C32: when the text is a number and nothing else, no token is delivered
\* before the upstream reports done, the Number token is delivered by the
\* step in which it reports done and is the only token ever delivered, no
\* call of next() fails, and when the parse is done the value yielded is
\* the number.
C32_LastNumberOnceAtDone ==
  IsNumberText =>
    /\ Len(delivered) = IF upstreamDone THEN 1 ELSE 0
    /\ \A i \in 1..Len(delivered) :
         delivered[i].type = "Number" /\ Plain(delivered[i].value) = JsonParse(text).v
    /\ result # "error"
    /\ result = "done" => Plain(lastYield) = JsonParse(text).v

\* The parse of 3.14 is done: the one token is the Number delivered when
\* the upstream reported done, and it was yielded once.
C32_Witness ==
  /\ text = Str(<<"3", ".", "1", "4">>)
  /\ result = "done"
  /\ emptyChunks = 0
  /\ Len(delivered) = 1
  /\ prevYield = NoYield

(***************************************************************************)
(* Progress.                                                               *)
(***************************************************************************)
\* The progress tokens: a literal, a number, the start of a container, and
\* the start and the content of a string that is not an object key.
IsProgress(token) ==
  \/ token.type \in {"Null", "Boolean", "Number", "ArrayStart", "ObjectStart"}
  \/ token.type \in {"StringStart", "StringMiddle"} /\ ~token.key

\* C33: unless a call of next() has failed, the code that ran since the
\* last await or call of next() has ended in a yield exactly when it handled
\* a progress token; after tokens that are all StringEnd, ArrayEnd,
\* ObjectEnd or tokens of a key there is no yield: next() pumps again.
C33_YieldIffProgress ==
  result # "error" => (Yielded <=> \E i \in 1..Len(tokens) : IsProgress(tokens[i]))

\* The pump handled the end of the key and nothing else; next() has not
\* yielded and pumps again: it awaits the upstream.
C33_Witness ==
  /\ pc = "expand"
  /\ result = "value"
  /\ Len(tokens) = 1
  /\ tokens[1].type = "StringEnd" /\ tokens[1].key

(***************************************************************************)
(* The returns of pump.                                                    *)
(***************************************************************************)
\* C34: a call of pump that returns has delivered a token, or the stack
\* of the tokenizer is empty, the upstream has been read to its end, and
\* what the text has after its value is whitespace only: the text is a JSON
\* document.
C34_PumpReturns ==
  \A i \in 1..Len(pumped) :
    \/ pumped[i].emitted > 0
    \/ /\ pumped[i].stack = <<>>
       /\ upstreamDone /\ rest = <<>>
       /\ IsValidJson(text)

(***************************************************************************)
(* The shape of the parser's stack.                                        *)
(***************************************************************************)
\* C35: an Initial frame is only at the bottom of stateStack and only as
\* long as no token has been handled; an InString frame is only at the top,
\* and under it is an InArray, InObjectExpectingValue or
\* InObjectExpectingKey frame, or nothing.
C35_StackShape ==
  \A i \in 1..Len(stateStack) :
    /\ stateStack[i].type = "Initial" => i = 1 /\ delivered = <<>>
    /\ stateStack[i].type = "InString" =>
         /\ i = Len(stateStack)
         /\ i = 1 \/ stateStack[i - 1].type \in
                       {"InArray", "InObjectExpectingValue", "InObjectExpectingKey"}

\* The parser is in a string of an array in an array: three frames, the
\* string on top, and tokens have been handled.
C35_Witness ==
  /\ Len(stateStack) = 3
  /\ stateStack[3].type = "InString"
  /\ stateStack[2].type = "InArray"
  /\ stateStack[1].type = "InArray"
  /\ Len(delivered) >= 3
  /\ result # "error"

(***************************************************************************)
(* The two stacks.                                                         *)
(***************************************************************************)
\* The tokens of ts whose type is in types.
RECURSIVE CountOf(_, _, _)
CountOf(ts, i, types) ==
  IF i > Len(ts) THEN 0
  ELSE (IF ts[i].type \in types THEN 1 ELSE 0) + CountOf(ts, i + 1, types)

\* The tokens delivered are a whole value: there are some, and every
\* string and container that was started has ended.
WholeValue(ts) ==
  /\ ts # <<>>
  /\ CountOf(ts, 1, {"StringStart", "ArrayStart", "ObjectStart"}) =
       CountOf(ts, 1, {"StringEnd", "ArrayEnd", "ObjectEnd"})

\* C36: the stack of the tokenizer is empty exactly when the stack of the
\* parser is, after every run of a method of the tokenizer that returned
\* and in every state between the steps of the parse; and they are empty
\* exactly when the tokens delivered are a whole top-level value.
C36_StacksAgree ==
  /\ \A i \in 1..Len(steps) :
       steps[i].returned => (steps[i].after = <<>> <=> steps[i].emptied)
  /\ stack = <<>> <=> stateStack = <<>>
  /\ stack = <<>> <=> WholeValue(delivered)

\* The ArrayEnd of the top-level array emptied both stacks in one run of a
\* method, after runs that left both with frames.
C36_Witness ==
  /\ stack = <<>> /\ stateStack = <<>>
  /\ Len(delivered) > 2
  /\ Len(steps) > 1
  /\ steps[Len(steps)].token = "ArrayEnd" /\ steps[Len(steps)].emptied
  /\ ~steps[1].emptied

(***************************************************************************)
(* What pump leaves in the buffer.                                         *)
(***************************************************************************)
\* The text is the beginning of a JSON document, or one.
BeginsJson(s) == JsonParse(s).st \in {"ok", "eof"}

\* b is the beginning of an escape, and not a whole one.
PartOfEscape(b) ==
  /\ b # <<>> /\ b[1] = Backslash
  /\ Len(b) < 6
  /\ Len(b) >= 2 => b[2] = LowerU /\ \A i \in 3..Len(b) : IsHex(b[i])

\* b is the characters of a number.
NumberSoFar(b) ==
  /\ b # <<>> /\ b[1] \in Digits \cup {Minus}
  /\ \A i \in 1..Len(b) : b[i] \in NumberChars

\* b is the beginning of null, true or false, and not the whole of it.
PartOfLiteral(b) ==
  /\ b # <<>>
  /\ \E lit \in {LiteralNull, LiteralTrue, LiteralFalse} :
       Len(b) < Len(lit) /\ b = Take(lit, Len(b))

\* C37: when the text received is the beginning of a JSON document and
\* pump returns with the top-level value not closed, the buffer it leaves
\* is empty, or part of an escape, or the characters of a number, or part
\* of a literal.
C37_BufferHoldsOneToken ==
  BeginsJson(Received) =>
    \A i \in 1..Len(pumped) :
      pumped[i].stack # <<>> =>
        \/ pumped[i].buffer = <<>>
        \/ PartOfEscape(pumped[i].buffer)
        \/ NumberSoFar(pumped[i].buffer)
        \/ PartOfLiteral(pumped[i].buffer)

\* pump returned after the a of "a\ud83d" and left the part of the escape
\* that the chunk held.
C37_Witness ==
  /\ BeginsJson(Received)
  /\ Len(pumped) = 1
  /\ pumped[1].stack = <<"InString">>
  /\ pumped[1].buffer = Str(<<"\\", "u", "d">>)

(***************************************************************************)
(* Where failures come from.                                               *)
(***************************************************************************)
\* The errors that the tokenizer and the input buffer throw.
TokenizerErrors ==
  { "Bad Unicode escape in JSON", "Bad escape in string", "Expected , or ]",
    "Expected , or } after object value", "Expected colon after object key",
    "Expected start of object key", "Invalid number",
    "Unescaped control character in string", "Unexpected end of content",
    "Unexpected trailing content" }

\* C38: a call of next() that fails fails with an error of the tokenizer
\* or of the input buffer: no check of the parser on the tokens it is
\* handed, on its stack or on toplevelValue ever throws.
C38_OnlyTokenizerErrors ==
  /\ error \in TokenizerErrors \cup {NoError}
  /\ result = "error" <=> error # NoError

\* A whole value was yielded, and the call of next() after it failed on
\* what follows the value: the error is the input buffer's.
C38_Witness ==
  /\ result = "error"
  /\ error = "Unexpected trailing content"
  /\ stateStack = <<>>
  /\ lastYield # NoYield

(***************************************************************************)
(* Every yield shows something new.                                        *)
(***************************************************************************)
\* C39: for a text that is not a document with a repeated key, a value
\* yielded after another differs from it in structure: next() never yields
\* what it yielded the time before.
C39_YieldsDiffer ==
  (~HasDuplicateKey(text) /\ JustYielded) => Plain(prevYield) # Plain(lastYield)

\* ["a"] was yielded and then ["a",1]: the string is as it was, the array
\* has a new element.
C39_Witness ==
  /\ ~HasDuplicateKey(text)
  /\ JustYielded
  /\ Plain(prevYield) = [t |-> "arr", items |-> <<StringValue(Str(<<"a">>))>>]
  /\ Len(lastYield.items) = 2

(***************************************************************************)
(* Yields and reads.                                                       *)
(***************************************************************************)
\* C40: a step that ends in a yield is a step in which the upstream
\* answers a read that the task awaits, with a chunk or with its first
\* done: a call of next() never yields before it has read the upstream, so
\* there is a read between two yields and before the first, and there are
\* no more yields than chunks and one.
C40_ReadBeforeYield ==
  [][(pc' = "idle" /\ result' = "value") => (pc # "idle" /\ ~upstreamDone)]_vars

\* A chunk with several tokens was delivered and next() yielded once, after
\* an earlier yield; more of the text is to come.
C40_Witness ==
  /\ JustYielded
  /\ Len(tokens) >= 3
  /\ rest # <<>>

=============================================================================
